---- MODULE Spec2Model ----
(***************************************************************************)
(* A model of the ShopifyAggregator batch pipeline: the order/transaction  *)
(* merger (merged_orders_transactions.py), the charge-adjustment           *)
(* aggregators (aggregate.py, aggregate_daily.py) and the stage sequencing *)
(* and file output of data_pipeline_manager.py and file_manager.py.        *)
(*                                                                         *)
(* Representation of the Python values:                                    *)
(*  - a dict is a function whose DOMAIN is the set of keys it carries;     *)
(*  - a str is a sequence of one-character strings, so that lower(),       *)
(*    float() and the ordering of sorted() are computed character by       *)
(*    character;                                                           *)
(*  - a JSON number is [num |-> n], n counted in thousandths (money is     *)
(*    decimal; the binary rounding residue of float is not modelled);      *)
(*    a numeric string is [str |-> <characters>];                          *)
(*  - the text of a 'Transaction Date' is a record of its ISO-8601 parts   *)
(*    [y, mo, d, hh, suffix], or [junk |-> text] when it is not ISO-8601;  *)
(*  - a datetime is [y, mo, d, hh, aware, off].                            *)
(***************************************************************************)
EXTENDS Integers, Sequences, FiniteSets, TLC

VARIABLES
    filtered_orders,          \* OrderTransactionMerger.filtered_orders
    transactions,             \* OrderTransactionMerger.transactions
    processed_transactions,   \* OrderTransactionMerger.processed_transactions
    unmatched_orders,         \* OrderTransactionMerger.unmatched_orders
    merger_calls,             \* number of completed process() calls on the instance
    merger_raised,            \* TRUE once process() has propagated an exception
    extracted,                \* TRUE once extract_orders_without_transactions() ran
    data,                     \* the record list the aggregator works on (run()'s data)
    norm_calls,               \* normalize_shipping_and_taxes(data) calls so far
    input_file,               \* the records of the aggregator's input JSON file
    mode,                     \* the aggregator class: "monthly" or "daily" of
                              \* aggregate.py, "standalone" of aggregate_daily.py
    agg_pc,                   \* the statement of run() reached
    agg_runs,                 \* run() calls started on the aggregator instance
    buckets,                  \* self.buckets: period key -> records, in insertion order
    aggregated_result,        \* self.aggregated_result
    taxes_by_state_aggregated, \* self.taxes_by_state_aggregated
    tax_csv,                  \* the rows write_transposed_csv wrote, none before
    files,                    \* the files opened or written so far: path -> state
    written,                  \* the paths written since run_all/run_selected was called
    run_state,                \* "idle", "running", "returned" or "raised"
    run_kind,                 \* "none", "run_all" or "run_selected"
    run_steps,                \* the argument of run_selected: a list of step names
    run_next,                 \* the stage run_all/run_selected comes to next, 1..7
    run_log,                  \* the stages whose run() was called, in call order
    run_error,                \* the exception that ended the call, "none" if none
    order_csv,                \* the rows of the combined orders CSV OrderFilter reads
    filtered_data,            \* OrderFilter.filtered_data
    chain_pc                  \* the stage a filter, merge, aggregate sequence reached

merger_vars == <<filtered_orders, transactions, processed_transactions,
                 unmatched_orders, merger_calls, merger_raised, extracted>>

norm_vars == <<data, norm_calls>>

agg_vars == <<input_file, mode, agg_pc, agg_runs, buckets, aggregated_result,
              taxes_by_state_aggregated, tax_csv>>

pipe_vars == <<files, written, run_state, run_kind, run_steps, run_next, run_log,
               run_error>>

filter_vars == <<order_csv, filtered_data, chain_pc>>

vars == <<merger_vars, norm_vars, agg_vars, pipe_vars, filter_vars>>

-----------------------------------------------------------------------------
(* Bounds of the model *)

MaxTx == 3        \* longest transaction list drawn
MaxCalls == 2     \* process() calls on one merger instance
MaxRecs == 3      \* longest record list given to the aggregator
MaxNormCalls == 2 \* normalize_shipping_and_taxes calls on one record list
MaxRuns == 1      \* run() calls on one aggregator instance
MaxSteps == 2     \* longest list of step names given to run_selected
MaxRows == 2      \* longest list of CSV rows given to a stage sequence

-----------------------------------------------------------------------------
(* Python str, dict and None *)

\* The characters the inputs use, in code point order ('#' 35, '-' 45, '.' 46,
\* digits 48..57, 'A'..'Z' 65..90, 'a'..'z' 97..122).
CodePoints ==
    <<"#", "-", ".", "0", "1", "2", "3", "4", "5", "6", "7", "8", "9",
      "A", "B", "C", "D", "E", "F", "G", "H", "I", "J", "K", "L", "M",
      "N", "O", "P", "Q", "R", "S", "T", "U", "V", "W", "X", "Y", "Z",
      "a", "b", "c", "d", "e", "f", "g", "h", "i", "j", "k", "l", "m",
      "n", "o", "p", "q", "r", "s", "t", "u", "v", "w", "x", "y", "z">>

OrdTable ==
    [c \in {CodePoints[i] : i \in 1..Len(CodePoints)} |->
        CHOOSE i \in 1..Len(CodePoints) : CodePoints[i] = c]

\* ord(c)
Ord(c) == OrdTable[c]

IsUpper(c) == Ord(c) >= Ord("A") /\ Ord(c) <= Ord("Z")

\* str.lower(), character by character
LowerChar(c) == IF IsUpper(c) THEN CodePoints[Ord(c) + (Ord("a") - Ord("A"))] ELSE c

Lower(s) == [i \in 1..Len(s) |-> LowerChar(s[i])]

\* s < t for two str: lexicographic by code point, as sorted() compares str
RECURSIVE StrLess(_, _)
StrLess(s, t) ==
    IF t = <<>> THEN FALSE
    ELSE IF s = <<>> THEN TRUE
    ELSE IF s[1] # t[1] THEN Ord(s[1]) < Ord(t[1])
    ELSE StrLess(Tail(s), Tail(t))

\* the value dict.get(key) gives for an absent key; it equals no str
None == <<"None">>

Get(r, k) == IF k \in DOMAIN r THEN r[k] ELSE None

\* {**a, **b}: the keys of both, b's value on a collision
Overlay(a, b) == [k \in DOMAIN a \cup DOMAIN b |-> IF k \in DOMAIN b THEN b[k] ELSE a[k]]

charge == <<"c", "h", "a", "r", "g", "e">>
refund == <<"r", "e", "f", "u", "n", "d">>

-----------------------------------------------------------------------------
(* Numbers: float() and round(x, 2), in thousandths *)

Num(n) == [num |-> n]
Text(s) == [str |-> s]

IsDigit(c) == Ord(c) >= Ord("0") /\ Ord(c) <= Ord("9")

\* the value of a sequence of digits
RECURSIVE DigitsValue(_)
DigitsValue(s) ==
    IF s = <<>> THEN 0
    ELSE DigitsValue(SubSeq(s, 1, Len(s) - 1)) * 10 + (Ord(s[Len(s)]) - Ord("0"))

\* the parts of a decimal literal [-]digits[.digits]
Unsigned(s) == IF s # <<>> /\ s[1] = "-" THEN Tail(s) ELSE s
DotAt(s) == IF \E i \in 1..Len(s) : s[i] = "."
            THEN CHOOSE i \in 1..Len(s) : s[i] = "." /\ \A j \in 1..(i - 1) : s[j] # "."
            ELSE Len(s) + 1
IntPart(s) == SubSeq(Unsigned(s), 1, DotAt(Unsigned(s)) - 1)
FracPart(s) == SubSeq(Unsigned(s), DotAt(Unsigned(s)) + 1, Len(Unsigned(s)))

\* float(s) accepts the str: a decimal literal (the inputs carry no exponent,
\* blank or inf/nan text), here with at most three decimals
IsDecimal(s) ==
    /\ Len(IntPart(s)) + Len(FracPart(s)) > 0
    /\ Len(FracPart(s)) <= 3
    /\ \A i \in 1..Len(IntPart(s)) : IsDigit(IntPart(s)[i])
    /\ \A i \in 1..Len(FracPart(s)) : IsDigit(FracPart(s)[i])

\* float(s) of a decimal literal, in thousandths
ParseFloat(s) ==
    LET frac == FracPart(s)
        padded == frac \o [i \in 1..(3 - Len(frac)) |-> "0"]
        magnitude == DigitsValue(IntPart(s)) * 1000 + DigitsValue(padded)
    IN IF s # <<>> /\ s[1] = "-" THEN 0 - magnitude ELSE magnitude

\* float(v) raises ValueError
FloatRaises(v) == "str" \in DOMAIN v /\ ~IsDecimal(v.str)

\* float(v) for a JSON number or a numeric str
Float(v) == IF "num" \in DOMAIN v THEN v.num ELSE ParseFloat(v.str)

\* float(r.get(k, 0))
FloatGet(r, k) == IF k \in DOMAIN r THEN Float(r[k]) ELSE 0

\* round(x, 2): to the nearest hundredth, a tie to the even hundredth
Round2(m) ==
    LET q == m \div 10
        r == m % 10
    IN IF r < 5 THEN q * 10
       ELSE IF r > 5 THEN (q + 1) * 10
       ELSE IF q % 2 = 0 THEN q * 10 ELSE (q + 1) * 10

-----------------------------------------------------------------------------
(* utils.parse_iso_datetime and datetime ordering *)

Raise == [raised |-> TRUE]

\* dt_str.replace("Z", "+00:00")
ReplaceZ(suffix) == IF suffix = "Z" THEN "+00:00" ELSE suffix

\* datetime.fromisoformat on the text after the replacement: the UTC offset in
\* hours for an offset-bearing text, a naive datetime for a text without offset,
\* ValueError for a text that is not ISO-8601.
parse_iso_datetime(text) ==
    IF "junk" \in DOMAIN text THEN Raise
    ELSE LET sfx == ReplaceZ(text.suffix) IN
         [y |-> text.y, mo |-> text.mo, d |-> text.d, hh |-> text.hh,
          aware |-> sfx # "",
          off |-> CASE sfx = "" -> 0
                    [] sfx = "+00:00" -> 0
                    [] sfx = "-05:00" -> 0 - 5
                    [] sfx = "+02:00" -> 2]

\* datetime.min, a naive datetime
datetime_min == [y |-> 1, mo |-> 1, d |-> 1, hh |-> 0, aware |-> FALSE, off |-> 0]

\* the empty str, as the text of a date
EmptyText == [junk |-> <<>>]

\* OrderTransactionMerger.parse_date: record.get("Transaction Date") is None for
\* a record without the key, and None and the empty str are falsy
parse_date(record) ==
    IF "Transaction Date" \in DOMAIN record /\ record["Transaction Date"] # EmptyText
    THEN LET dt == parse_iso_datetime(record["Transaction Date"]) IN
         IF dt = Raise THEN datetime_min ELSE dt
    ELSE datetime_min

\* Hours of a datetime on the time line (UTC for an aware one, wall clock for a
\* naive one). Months are counted with 31 days, which is exact for the January
\* and February dates the inputs are drawn from.
Hours(dt) == (((dt.y * 12 + dt.mo) * 31 + dt.d) * 24 + dt.hh) - dt.off

\* a < b raises TypeError when one is naive and the other aware
Comparable(a, b) == a.aware = b.aware

\* sorted(seq, key=parse_date) compares keys pairwise; with two or more
\* elements some naive key meets some aware key iff both kinds are present
SortRaises(seq) ==
    \E i, j \in 1..Len(seq) : ~Comparable(parse_date(seq[i]), parse_date(seq[j]))

\* x inserted behind every element whose key is <= its own (stable)
RECURSIVE InsertByDate(_, _)
InsertByDate(x, sorted) ==
    IF sorted = <<>> THEN <<x>>
    ELSE IF Hours(parse_date(x)) < Hours(parse_date(Head(sorted)))
         THEN <<x>> \o sorted
         ELSE <<Head(sorted)>> \o InsertByDate(x, Tail(sorted))

\* SortedByDate as it would be without the sort: the list as given
SortedByDate_AsGiven(seq) == seq

\* sorted(self.transactions, key=self.parse_date): ascending and stable
RECURSIVE SortedByDate(_)
SortedByDate(seq) ==
    IF seq = <<>> THEN <<>>
    ELSE InsertByDate(seq[Len(seq)], SortedByDate(SubSeq(seq, 1, Len(seq) - 1)))

-----------------------------------------------------------------------------
(* OrderTransactionMerger *)

\* filtered_dict = {o["Name"]: o for o in self.filtered_orders}: the last order
\* of a Name is the one kept
FilteredNames(orders) == {orders[i]["Name"] : i \in 1..Len(orders)}

FilteredDict(orders, name) ==
    orders[CHOOSE i \in 1..Len(orders) :
              /\ orders[i]["Name"] = name
              /\ \A j \in (i + 1)..Len(orders) : orders[j]["Name"] # name]

\* MergeWalk as it would be without the met_orders test: every charge of a known
\* order is merged
RECURSIVE MergeWalk_NoMetCheck(_, _, _, _)
MergeWalk_NoMetCheck(orders, sorted, i, met) ==
    IF i > Len(sorted) THEN <<>>
    ELSE LET tx == sorted[i]
             order_id == Get(tx, "Order")
             tx_type == Get(tx, "Type")
         IN IF tx_type = charge /\ order_id \in FilteredNames(orders)
            THEN <<Overlay(FilteredDict(orders, order_id), tx)>>
                     \o MergeWalk_NoMetCheck(orders, sorted, i + 1, met)
            ELSE <<tx>> \o MergeWalk_NoMetCheck(orders, sorted, i + 1, met)

\* MergeWalk as it would be with {**tx, **filtered_dict[order_id]}: the order's
\* values win
RECURSIVE MergeWalk_OrderWins(_, _, _, _)
MergeWalk_OrderWins(orders, sorted, i, met) ==
    IF i > Len(sorted) THEN <<>>
    ELSE LET tx == sorted[i]
             order_id == Get(tx, "Order")
             tx_type == Get(tx, "Type")
         IN IF /\ tx_type = charge
               /\ order_id \notin met
               /\ order_id \in FilteredNames(orders)
            THEN <<Overlay(tx, FilteredDict(orders, order_id))>>
                     \o MergeWalk_OrderWins(orders, sorted, i + 1, met \cup {order_id})
            ELSE <<tx>> \o MergeWalk_OrderWins(orders, sorted, i + 1, met)

\* the loop of process() over the sorted transactions from position i on, with
\* the orders met so far; gives the records appended
RECURSIVE MergeWalk(_, _, _, _)
MergeWalk(orders, sorted, i, met) ==
    IF i > Len(sorted) THEN <<>>
    ELSE LET tx == sorted[i]
             order_id == Get(tx, "Order")
             tx_type == Get(tx, "Type")
         IN IF /\ tx_type = charge
               /\ order_id \notin met
               /\ order_id \in FilteredNames(orders)
            THEN <<Overlay(FilteredDict(orders, order_id), tx)>>
                     \o MergeWalk(orders, sorted, i + 1, met \cup {order_id})
            ELSE <<tx>> \o MergeWalk(orders, sorted, i + 1, met)

\* ProcessAppends as it would be without the else branch: only merged records
\* are appended
ProcessAppends_MergedOnly(orders, txs) ==
    SelectSeq(MergeWalk(orders, SortedByDate(txs), 1, {}), LAMBDA r : "Name" \in DOMAIN r)

\* what one process() call appends to self.processed_transactions
ProcessAppends(orders, txs) == MergeWalk(orders, SortedByDate(txs), 1, {})

\* OrderTransactionMerger.process
process ==
    /\ ~merger_raised
    /\ merger_calls < MaxCalls
    /\ IF SortRaises(transactions)
       THEN /\ merger_raised' = TRUE
            /\ UNCHANGED <<processed_transactions, merger_calls>>
       ELSE /\ processed_transactions' =
                   processed_transactions \o ProcessAppends(filtered_orders, transactions)
            /\ merger_calls' = merger_calls + 1
            /\ UNCHANGED merger_raised
    /\ UNCHANGED <<filtered_orders, transactions, unmatched_orders, extracted>>
    /\ UNCHANGED <<norm_vars, agg_vars, pipe_vars, filter_vars>>

\* UnmatchedOf as it would be if only charge transactions counted as references
UnmatchedOf_ChargesOnly(orders, txs) ==
    LET transaction_order_ids ==
            {Get(txs[i], "Order") : i \in {j \in 1..Len(txs) : Get(txs[j], "Type") = charge}}
    IN SelectSeq(orders, LAMBDA order : order["Name"] \notin transaction_order_ids)

\* the orders extract_orders_without_transactions() keeps
UnmatchedOf(orders, txs) ==
    LET transaction_order_ids == {Get(txs[i], "Order") : i \in 1..Len(txs)}
    IN SelectSeq(orders, LAMBDA order : order["Name"] \notin transaction_order_ids)

\* OrderTransactionMerger.extract_orders_without_transactions
extract_orders_without_transactions ==
    /\ ~extracted
    /\ unmatched_orders' = UnmatchedOf(filtered_orders, transactions)
    /\ extracted' = TRUE
    /\ UNCHANGED <<filtered_orders, transactions, processed_transactions,
                   merger_calls, merger_raised>>
    /\ UNCHANGED <<norm_vars, agg_vars, pipe_vars, filter_vars>>

-----------------------------------------------------------------------------
(* OrderFilter *)

\* A row of the orders CSV, as csv.DictReader gives it: a dict from column to
\* str. The 'Created at' cell is kept as the record of its ISO-8601 parts,
\* like the text of a 'Transaction Date'.

\* the filter before run(): __init__
FilterIdle ==
    /\ order_csv = <<>>
    /\ filtered_data = <<>>
    /\ chain_pc = "idle"

\* config["cutoff_date"]
cutoff_date == [y |-> 2025, mo |-> 1, d |-> 1]

\* config["mandatory_order_fields"] + config["additional_order_columns"]
required_columns ==
    {"Name", "Email", "Created at", "Subtotal", "Taxes", "Shipping", "Total",
     "Discount Amount"}

\* the columns whose value the summaries later give to float(); their str is
\* carried as [str |-> characters]
AmountColumns == {"Subtotal", "Taxes", "Shipping", "Total", "Discount Amount"}

\* s.strip(): the blanks at both ends removed
RECURSIVE Strip(_)
Strip(s) ==
    IF s # <<>> /\ s[1] = " " THEN Strip(Tail(s))
    ELSE IF s # <<>> /\ s[Len(s)] = " " THEN Strip(SubSeq(s, 1, Len(s) - 1))
    ELSE s

\* row.get(col, '').strip()
Cell(row, col) == IF col \in DOMAIN row THEN Strip(row[col]) ELSE <<>>

\* the days of a date on the time line, months counted as in Hours
Days(dt) == (dt.y * 12 + dt.mo) * 31 + dt.d

\* datetime.date(), and the date as isoformat() then writes it
DateOf(dt) == [y |-> dt.y, mo |-> dt.mo, d |-> dt.d]

\* the entry built from the row by the loop over required_columns
EntryOf(row) ==
    [col \in required_columns |->
        IF col = "Created at" THEN DateOf(parse_iso_datetime(row[col]))
        ELSE IF col \in AmountColumns THEN Text(Cell(row, col))
        ELSE Cell(row, col)]

\* all(row.get(field, '').strip() for field in ["Subtotal", "Taxes",
\* "Shipping", "Total"])
Presence(row) ==
    \A field \in {"Subtotal", "Taxes", "Shipping", "Total"} : Cell(row, field) # <<>>

\* the row passes every test of process_file, seen being self.seen_names
Keeps(row, seen) ==
    LET name == Cell(row, "Name")
        created == IF "Created at" \in DOMAIN row
                   THEN parse_iso_datetime(row["Created at"]) ELSE Raise
    IN /\ name # <<>>
       /\ name[1] = "#"
       /\ name \notin seen
       /\ Presence(row)
       /\ created # Raise
       /\ Days(created) > Days(cutoff_date) - 1

\* process_file: the loop over the rows from position i on
RECURSIVE FilterFrom(_, _, _, _)
FilterFrom(rows, i, kept, seen) ==
    IF i > Len(rows) THEN kept
    ELSE IF Keeps(rows[i], seen)
         THEN FilterFrom(rows, i + 1, Append(kept, EntryOf(rows[i])),
                         seen \cup {Cell(rows[i], "Name")})
         ELSE FilterFrom(rows, i + 1, kept, seen)

\* OrderFilter.filter_orders(): self.filtered_data after the file was read
FilterOrders(rows) == FilterFrom(rows, 1, <<>>, {})

-----------------------------------------------------------------------------
(* ChargeAdjustmentAggregatorBase.normalize_shipping_and_taxes *)

RECURSIVE SumSeq(_)
SumSeq(s) == IF s = <<>> THEN 0 ELSE Head(s) + SumSeq(Tail(s))

\* order_map.get(name, []): the positions of the records whose Order is name,
\* in list order
RECURSIVE Related(_, _, _)
Related(records, name, i) ==
    IF i > Len(records) THEN <<>>
    ELSE IF "Order" \in DOMAIN records[i] /\ records[i]["Order"] = name
         THEN <<i>> \o Related(records, name, i + 1)
         ELSE Related(records, name, i + 1)

\* ZeroShippingAndTaxes as it would be if the charge's Amount were reduced by
\* its Shipping and Taxes instead of the two fields being set to 0
ZeroShippingAndTaxes_Deduct(tx) ==
    Overlay(tx, "Amount" :> Num(FloatGet(tx, "Amount") - FloatGet(tx, "Shipping")
                                    - FloatGet(tx, "Taxes")))

\* tx["Shipping"] = 0; tx["Taxes"] = 0
ZeroShippingAndTaxes(tx) == Overlay(tx, ("Shipping" :> Num(0)) @@ ("Taxes" :> Num(0)))

\* ZeroCharges as it would be without the test of Type: every related record
\* is zeroed
ZeroCharges_AnyType(records, related) ==
    [j \in 1..Len(records) |->
        IF \E k \in 1..Len(related) : related[k] = j
        THEN ZeroShippingAndTaxes(records[j])
        ELSE records[j]]

\* the inner loop: every charge among the related records is zeroed in place
ZeroCharges(records, related) ==
    [j \in 1..Len(records) |->
        IF (\E k \in 1..Len(related) : related[k] = j) /\ Get(records[j], "Type") = charge
        THEN ZeroShippingAndTaxes(records[j])
        ELSE records[j]]

\* the total the group is judged by
TotalAmount(records, related) ==
    SumSeq([k \in 1..Len(related) |-> FloatGet(records[related[k]], "Amount")])

\* NormalizeEntry as it would be with the test total_amount < 0
NormalizeEntry_StrictlyNegative(records, i) ==
    IF "Name" \in DOMAIN records[i]
    THEN LET related == Related(records, records[i]["Name"], 1)
         IN IF Len(related) > 1 /\ TotalAmount(records, related) < 0
            THEN ZeroCharges(records, related)
            ELSE records
    ELSE records

\* the body of the second loop for the entry at position i
NormalizeEntry(records, i) ==
    IF "Name" \in DOMAIN records[i]
    THEN LET related == Related(records, records[i]["Name"], 1)
         IN IF Len(related) > 1 /\ TotalAmount(records, related) <= 0
            THEN ZeroCharges(records, related)
            ELSE records
    ELSE records

\* the second loop from position i on
RECURSIVE NormalizeFrom(_, _)
NormalizeFrom(records, i) ==
    IF i > Len(records) THEN records
    ELSE NormalizeFrom(NormalizeEntry(records, i), i + 1)

\* Normalize as it would be if the records of each day were normalized apart
\* from those of the other days
Normalize_DayByDay(records) ==
    [i \in 1..Len(records) |->
        LET day == DateOf(records[i]["Transaction Date"])
            same == {j \in 1..Len(records) : DateOf(records[j]["Transaction Date"]) = day}
            place(j) == Cardinality({k \in same : k <= j})
            of_day == [n \in 1..Cardinality(same) |->
                          records[CHOOSE j \in same : place(j) = n]]
        IN NormalizeFrom(of_day, 1)[place(i)]]

\* the list normalize_shipping_and_taxes(records) leaves
Normalize(records) == NormalizeFrom(records, 1)

\* ChargeAdjustmentAggregatorBase.normalize_shipping_and_taxes(data)
normalize_shipping_and_taxes ==
    /\ norm_calls < MaxNormCalls
    /\ data' = Normalize(data)
    /\ norm_calls' = norm_calls + 1
    /\ UNCHANGED <<merger_vars, agg_vars, pipe_vars, filter_vars>>

-----------------------------------------------------------------------------
(* ChargeAdjustmentAggregatorBase and its Monthly and Daily subclasses *)

\* no file written yet
NoCsv == [header |-> <<>>, rows |-> <<>>]

\* the aggregator before any run(): __init__
AggIdle ==
    /\ input_file = <<>>
    /\ mode = "monthly"
    /\ agg_pc = "idle"
    /\ agg_runs = 0
    /\ buckets = <<>>
    /\ aggregated_result = <<>>
    /\ taxes_by_state_aggregated = <<>>
    /\ tax_csv = NoCsv

\* n written with w digits, zero-padded, as strftime writes %Y, %m, %d
RECURSIVE Pad(_, _)
Pad(n, w) ==
    IF w = 0 THEN <<>>
    ELSE Pad(n \div 10, w - 1) \o <<CodePoints[Ord("0") + (n % 10)]>>

\* MonthlyBucketKey as it would be with the format "%Y-%d"
MonthlyBucketKey_DayForMonth(item) ==
    LET dt == item["Transaction Date"] IN Pad(dt.y, 4) \o <<"-">> \o Pad(dt.d, 2)

\* MonthlyChargeAdjustmentAggregator.bucket_key: strftime("%Y-%m")
MonthlyBucketKey(item) ==
    LET dt == item["Transaction Date"] IN Pad(dt.y, 4) \o <<"-">> \o Pad(dt.mo, 2)

\* DailyChargeAdjustmentAggregator.bucket_key: strftime("%Y-%m-%d")
DailyBucketKey(item) ==
    LET dt == item["Transaction Date"]
    IN Pad(dt.y, 4) \o <<"-">> \o Pad(dt.mo, 2) \o <<"-">> \o Pad(dt.d, 2)

\* aggregate_daily.py, bucket_by_day: strftime("%Y-%m-%d")
StandaloneBucketKey(item) ==
    LET dt == item["Transaction Date"]
    IN Pad(dt.y, 4) \o <<"-">> \o Pad(dt.mo, 2) \o <<"-">> \o Pad(dt.d, 2)

\* the key of an item, by the class of the aggregator
bucket_key(m, item) ==
    CASE m = "monthly" -> MonthlyBucketKey(item)
      [] m = "daily" -> DailyBucketKey(item)
      [] m = "standalone" -> StandaloneBucketKey(item)

\* load_data: every item's 'Transaction Date' text becomes a datetime
LoadData(file) ==
    [i \in 1..Len(file) |->
        [file[i] EXCEPT !["Transaction Date"] = parse_iso_datetime(@)]]

\* BucketAppend as it would be if a new key went before the keys already there
BucketAppend_NewKeyFirst(bs, key, i) ==
    IF \E b \in 1..Len(bs) : bs[b].key = key
    THEN [b \in 1..Len(bs) |->
             IF bs[b].key = key THEN [bs[b] EXCEPT !.items = Append(@, i)] ELSE bs[b]]
    ELSE <<[key |-> key, items |-> <<i>>]>> \o bs

\* self.buckets[key].append(item): a defaultdict keeps its keys in the order
\* of first insertion; a bucket holds references to the items of the list,
\* here their positions
BucketAppend(bs, key, i) ==
    IF \E b \in 1..Len(bs) : bs[b].key = key
    THEN [b \in 1..Len(bs) |->
             IF bs[b].key = key THEN [bs[b] EXCEPT !.items = Append(@, i)] ELSE bs[b]]
    ELSE Append(bs, [key |-> key, items |-> <<i>>])

\* the loop of bucket_data over the items from position i on
RECURSIVE BucketFrom(_, _, _, _)
BucketFrom(m, records, bs, i) ==
    IF i > Len(records) THEN bs
    ELSE BucketFrom(m, records, BucketAppend(bs, bucket_key(m, records[i]), i), i + 1)

\* bucket_data(data): self.buckets.clear(), then the loop
BucketData(m, records, old) == BucketFrom(m, records, <<>>, 1)

\* format_datetime: strftime("%Y-%m-%d %H:%M:%S"), the offset dropped
format_datetime(dt) ==
    [text |-> Pad(dt.y, 4) \o <<"-">> \o Pad(dt.mo, 2) \o <<"-">> \o Pad(dt.d, 2)
                \o <<" ">> \o Pad(dt.hh, 2) \o <<":", "0", "0", ":", "0", "0">>]

\* finalize_dates(records)
FinalizeDates(records) ==
    [i \in 1..Len(records) |->
        [records[i] EXCEPT !["Transaction Date"] = format_datetime(@)]]

\* StateTaxFrom as it would be with the test "Tax Breakdown" in item alone
RECURSIVE StateTaxFrom_NoTaxesTest(_, _, _)
StateTaxFrom_NoTaxesTest(records, agg, i) ==
    IF i > Len(records) THEN agg
    ELSE LET item == records[i] IN
         IF "Tax Breakdown" \in DOMAIN item
         THEN LET tb == item["Tax Breakdown"]
              IN StateTaxFrom_NoTaxesTest(records,
                     [st \in DOMAIN agg \cup DOMAIN tb |->
                         (IF st \in DOMAIN agg THEN agg[st] ELSE 0)
                             + (IF st \in DOMAIN tb THEN Float(tb[st]) ELSE 0)],
                     i + 1)
         ELSE StateTaxFrom_NoTaxesTest(records, agg, i + 1)

\* state_tax_aggregator: the running totals after the items from position i on
RECURSIVE StateTaxFrom(_, _, _)
StateTaxFrom(records, agg, i) ==
    IF i > Len(records) THEN agg
    ELSE LET item == records[i] IN
         IF /\ "Tax Breakdown" \in DOMAIN item
            /\ "Taxes" \in DOMAIN item
            /\ Float(item["Taxes"]) > 0
         THEN LET tb == item["Tax Breakdown"]
              IN StateTaxFrom(records,
                     [st \in DOMAIN agg \cup DOMAIN tb |->
                         (IF st \in DOMAIN agg THEN agg[st] ELSE 0)
                             + (IF st \in DOMAIN tb THEN Float(tb[st]) ELSE 0)],
                     i + 1)
         ELSE StateTaxFrom(records, agg, i + 1)

\* ChargeAdjustmentAggregatorBase.state_tax_aggregator
state_tax_aggregator(records) ==
    LET aggregated_state_tax == StateTaxFrom(records, <<>>, 1)
    IN [st \in DOMAIN aggregated_state_tax |-> Round2(aggregated_state_tax[st])]

\* the entry summarize_record_group appends to self.taxes_by_state_aggregated
TaxSummary(label, key, records) == Overlay(state_tax_aggregator(records), label :> key)

\* TypeLower as it would be without .lower()
TypeLower_CaseSensitive(r) == IF "Type" \in DOMAIN r THEN r["Type"] ELSE <<>>

\* r.get("Type", "").lower()
TypeLower(r) == IF "Type" \in DOMAIN r THEN Lower(r["Type"]) ELSE <<>>

\* other_types[tx_type] += 1: a Counter keeps its keys in first-seen order
CountType(other_types, t) ==
    IF \E k \in 1..Len(other_types) : other_types[k] = t THEN other_types
    ELSE Append(other_types, t)

\* the refund / other classification of one record; acc holds summary,
\* other_types and other_orders
Classify(acc, r) ==
    LET tx_type == TypeLower(r) IN
    IF tx_type = refund
    THEN [acc EXCEPT !.summary["Refund"] = @ + FloatGet(r, "Amount")]
    ELSE IF tx_type \notin {refund, charge}
    THEN [acc EXCEPT !.summary["Other"] = @ + FloatGet(r, "Amount"),
                     !.other_types = CountType(@, tx_type),
                     !.other_orders = IF "Order" \in DOMAIN r THEN @ \cup {r["Order"]} ELSE @]
    ELSE acc

\* sorted(S) for a set of str
RECURSIVE SortedStrs(_)
SortedStrs(S) ==
    IF S = {} THEN <<>>
    ELSE LET least == CHOOSE x \in S : \A y \in S \ {x} : StrLess(x, y)
         IN <<least>> \o SortedStrs(S \ {least})

\* MonthlyStep as it would be if a record lacking a summed field were skipped
MonthlyStep_SkipIncomplete(acc, r) ==
    IF {"Amount", "Fee", "Shipping", "Taxes", "Discount Amount"} \subseteq DOMAIN r
    THEN Classify([acc EXCEPT !.summary["Amount"] = @ + FloatGet(r, "Amount"),
                              !.summary["Fee"] = @ + FloatGet(r, "Fee"),
                              !.summary["Shipping"] = @ + FloatGet(r, "Shipping"),
                              !.summary["Taxes"] = @ + FloatGet(r, "Taxes"),
                              !.summary["Discount"] = @ + FloatGet(r, "Discount Amount")], r)
    ELSE acc

\* Monthly summarize_record_group: the loop body for record r
MonthlyStep(acc, r) ==
    Classify([acc EXCEPT !.summary["Amount"] = @ + FloatGet(r, "Amount"),
                         !.summary["Fee"] = @ + FloatGet(r, "Fee"),
                         !.summary["Shipping"] = @ + FloatGet(r, "Shipping"),
                         !.summary["Taxes"] = @ + FloatGet(r, "Taxes"),
                         !.summary["Discount"] = @ + FloatGet(r, "Discount Amount")], r)

\* Daily summarize_record_group: the loop body for record r
DailyStep(acc, r) ==
    Classify([acc EXCEPT !.summary["Amount"] = @ + FloatGet(r, "Amount"),
                         !.summary["Fee"] = @ + FloatGet(r, "Fee"),
                         !.summary["Shipping"] = @ + FloatGet(r, "Shipping"),
                         !.summary["Taxes"] = @ + FloatGet(r, "Taxes"),
                         !.summary["Discount"] = @ + FloatGet(r, "Discount Amount"),
                         !.summary["Net"] = @ + FloatGet(r, "Net"),
                         !.summary["Subtotal"] = @ + FloatGet(r, "Subtotal"),
                         !.summary["OrderGross"] = @ + FloatGet(r, "Total")], r)

\* the loop of summarize_record_group over the records from position i on
RECURSIVE Accumulate(_, _, _, _)
Accumulate(m, records, acc, i) ==
    IF i > Len(records) THEN acc
    ELSE Accumulate(m, records,
                    IF m = "monthly" THEN MonthlyStep(acc, records[i])
                                     ELSE DailyStep(acc, records[i]),
                    i + 1)

MonthlyFields == {"Amount", "Fee", "Shipping", "Taxes", "Total", "Refund", "Discount", "Other"}
DailyFields == MonthlyFields \cup {"Net", "OrderGross", "Subtotal"}
SumFields(m) == IF m = "monthly" THEN MonthlyFields ELSE DailyFields
PeriodLabel(m) == IF m = "monthly" THEN "Month" ELSE "Day"

\* the summary dict as summarize_record_group first builds it
InitialSummary(m, key, records) ==
    [f \in SumFields(m) |-> 0]
        @@ (PeriodLabel(m) :> key)
        @@ ("Transaction Count" :> Len(records))
        @@ ("OtherTypes" :> <<>>) @@ ("OtherTypeOrders" :> <<>>)

\* WithTotal as it would be if Discount were netted as well
WithTotal_LessDiscount(summary) ==
    [summary EXCEPT !["Total"] =
        summary["Amount"] - summary["Fee"] - summary["Shipping"] - summary["Taxes"]
            - summary["Discount"]]

\* summary["Total"] = summary["Amount"] - summary["Fee"] - summary["Shipping"]
\*                    - summary["Taxes"], on the sums not yet rounded
WithTotal(summary) ==
    [summary EXCEPT !["Total"] =
        summary["Amount"] - summary["Fee"] - summary["Shipping"] - summary["Taxes"]]

\* for k in [...]: summary[k] = round(summary[k], 2)
Rounded(m, summary) ==
    [f \in DOMAIN summary |-> IF f \in SumFields(m) THEN Round2(summary[f]) ELSE summary[f]]

\* summarize_record_group(key, records): the summary returned
summarize_record_group(m, key, records) ==
    LET acc == Accumulate(m, records,
                   [summary |-> InitialSummary(m, key, records),
                    other_types |-> <<>>, other_orders |-> {}], 1)
    IN [Rounded(m, WithTotal(acc.summary))
            EXCEPT !["OtherTypes"] = acc.other_types,
                   !["OtherTypeOrders"] = SortedStrs(acc.other_orders)]

\* aggregate_daily.py, normalize_shipping_and_taxes: order_map.get(name, []),
\* the positions of the records whose Order is name
RECURSIVE StandaloneRelated(_, _, _)
StandaloneRelated(records, name, i) ==
    IF i > Len(records) THEN <<>>
    ELSE IF "Order" \in DOMAIN records[i] /\ records[i]["Order"] = name
         THEN <<i>> \o StandaloneRelated(records, name, i + 1)
         ELSE StandaloneRelated(records, name, i + 1)

\* aggregate_daily.py, normalize_shipping_and_taxes: the body of the second
\* loop for the entry at position i
StandaloneNormalizeEntry(records, i) ==
    IF "Name" \in DOMAIN records[i]
    THEN LET related == StandaloneRelated(records, records[i]["Name"], 1)
             total_amount ==
                 SumSeq([k \in 1..Len(related) |-> FloatGet(records[related[k]], "Amount")])
         IN IF Len(related) > 1 /\ total_amount <= 0
            THEN [j \in 1..Len(records) |->
                     IF /\ \E k \in 1..Len(related) : related[k] = j
                        /\ Get(records[j], "Type") = charge
                     THEN Overlay(records[j], ("Shipping" :> Num(0)) @@ ("Taxes" :> Num(0)))
                     ELSE records[j]]
            ELSE records
    ELSE records

RECURSIVE StandaloneNormalizeFrom(_, _)
StandaloneNormalizeFrom(records, i) ==
    IF i > Len(records) THEN records
    ELSE StandaloneNormalizeFrom(StandaloneNormalizeEntry(records, i), i + 1)

\* aggregate_daily.py, the list normalize_shipping_and_taxes(records) leaves
StandaloneNormalize(records) == StandaloneNormalizeFrom(records, 1)

\* normalize_shipping_and_taxes, by the class of the aggregator
NormalizeOf(m, records) ==
    IF m = "standalone" THEN StandaloneNormalize(records) ELSE Normalize(records)

\* aggregate_daily.py, state_tax_aggregator: the running totals after the items
\* from position i on
RECURSIVE StandaloneStateTaxFrom(_, _, _)
StandaloneStateTaxFrom(records, agg, i) ==
    IF i > Len(records) THEN agg
    ELSE LET item == records[i] IN
         IF /\ "Tax Breakdown" \in DOMAIN item
            /\ "Taxes" \in DOMAIN item
            /\ Float(item["Taxes"]) > 0
         THEN LET tb == item["Tax Breakdown"]
              IN StandaloneStateTaxFrom(records,
                     [st \in DOMAIN agg \cup DOMAIN tb |->
                         IF st \notin DOMAIN tb THEN agg[st]
                         ELSE IF st \notin DOMAIN agg THEN Float(tb[st])
                         ELSE agg[st] + Float(tb[st])],
                     i + 1)
         ELSE StandaloneStateTaxFrom(records, agg, i + 1)

\* standalone_state_tax_aggregator as it would be without the rounding loop
standalone_state_tax_aggregator_Unrounded(records) ==
    StandaloneStateTaxFrom(records, <<>>, 1)

\* aggregate_daily.py, DailyChargeAdjustmentAggregator.state_tax_aggregator
standalone_state_tax_aggregator(records) ==
    LET aggregated_state_tax == StandaloneStateTaxFrom(records, <<>>, 1)
    IN [st \in DOMAIN aggregated_state_tax |-> Round2(aggregated_state_tax[st])]

\* aggregate_daily.py, aggregate: the entry appended to taxes_by_state_aggregated
StandaloneTaxSummary(day, records) ==
    Overlay(standalone_state_tax_aggregator(records), "Day" :> day)

\* aggregate_daily.py, aggregate: the loop body for record r
StandaloneStep(acc, r) ==
    LET tx_type == TypeLower(r)
        amount == FloatGet(r, "Amount")
        fee == FloatGet(r, "Fee")
        shipping == FloatGet(r, "Shipping")
        taxes == FloatGet(r, "Taxes")
        discount == FloatGet(r, "Discount Amount")
        net == FloatGet(r, "Net")
        subtotal == FloatGet(r, "Subtotal")
        order_total == FloatGet(r, "Total")
        summed == [acc EXCEPT !.summary["Amount"] = @ + amount,
                              !.summary["Fee"] = @ + fee,
                              !.summary["Shipping"] = @ + shipping,
                              !.summary["Taxes"] = @ + taxes,
                              !.summary["Discount"] = @ + discount,
                              !.summary["Net"] = @ + net,
                              !.summary["Subtotal"] = @ + subtotal,
                              !.summary["OrderGross"] = @ + order_total]
    IN IF tx_type = refund
       THEN [summed EXCEPT !.summary["Refund"] = @ + amount]
       ELSE IF tx_type \notin {refund, charge}
       THEN [summed EXCEPT !.summary["Other"] = @ + amount,
                           !.other_types = CountType(@, tx_type),
                           !.other_orders = IF "Order" \in DOMAIN r THEN @ \cup {r["Order"]}
                                                                    ELSE @]
       ELSE summed

RECURSIVE StandaloneAccumulate(_, _, _)
StandaloneAccumulate(records, acc, i) ==
    IF i > Len(records) THEN acc
    ELSE StandaloneAccumulate(records, StandaloneStep(acc, records[i]), i + 1)

\* aggregate_daily.py, aggregate: the summary of one day
StandaloneSummary(day, records) ==
    LET initial == [f \in DailyFields |-> 0]
                       @@ ("Day" :> day)
                       @@ ("Transaction Count" :> Len(records))
                       @@ ("OtherTypes" :> <<>>) @@ ("OtherTypeOrders" :> <<>>)
        acc == StandaloneAccumulate(records,
                   [summary |-> initial, other_types |-> <<>>, other_orders |-> {}], 1)
        totalled == [acc.summary EXCEPT !["Total"] =
                        acc.summary["Amount"] - acc.summary["Fee"]
                            - acc.summary["Shipping"] - acc.summary["Taxes"]]
    IN [[f \in DOMAIN totalled |->
            IF f \in DailyFields THEN Round2(totalled[f]) ELSE totalled[f]]
            EXCEPT !["OtherTypes"] = acc.other_types,
                   !["OtherTypeOrders"] = SortedStrs(acc.other_orders)]

\* the summary and the tax summary of a bucket, by the class of the aggregator
SummaryOf(m, key, records) ==
    IF m = "standalone" THEN StandaloneSummary(key, records)
    ELSE summarize_record_group(m, key, records)

TaxSummaryOf(m, key, records) ==
    IF m = "standalone" THEN StandaloneTaxSummary(key, records)
    ELSE TaxSummary(PeriodLabel(m), key, records)

\* the records of a bucket
BucketRecords(records, bucket) == [k \in 1..Len(bucket.items) |-> records[bucket.items[k]]]

\* the keys the loop of the summary reads with float(r.get(key, 0))
SummedKeys(m) ==
    IF m = "monthly" THEN {"Amount", "Fee", "Shipping", "Taxes", "Discount Amount"}
    ELSE {"Amount", "Fee", "Shipping", "Taxes", "Discount Amount", "Net", "Subtotal", "Total"}

\* float(r.get(key, 0)) raises ValueError for some key of r: the key is
\* present and its value is a str that is no number
RecordRaises(m, r) == \E k \in SummedKeys(m) \cap DOMAIN r : FloatRaises(r[k])

\* state_tax_aggregator raises on item: float(item["Taxes"]) or, Taxes being
\* positive, float(tax_amount) of a breakdown entry
TaxRaises(item) ==
    /\ "Tax Breakdown" \in DOMAIN item
    /\ "Taxes" \in DOMAIN item
    /\ \/ FloatRaises(item["Taxes"])
       \/ /\ Float(item["Taxes"]) > 0
          /\ \E st \in DOMAIN item["Tax Breakdown"] : FloatRaises(item["Tax Breakdown"][st])

\* the summary of the bucket raises before anything is appended for it
BucketRaises(m, records) ==
    \E k \in 1..Len(records) : RecordRaises(m, records[k]) \/ TaxRaises(records[k])

\* the buckets summarized before aggregate() returns or raises
Completed(m, records, bs) ==
    IF \E b \in 1..Len(bs) : BucketRaises(m, BucketRecords(records, bs[b]))
    THEN (CHOOSE b \in 1..Len(bs) :
              /\ BucketRaises(m, BucketRecords(records, bs[b]))
              /\ \A c \in 1..(b - 1) : ~BucketRaises(m, BucketRecords(records, bs[c]))) - 1
    ELSE Len(bs)

\* what one run() of the class m on the records of file leaves: the list
\* self.processed_data, the summaries and tax summaries appended, and whether
\* aggregate() raised
RunOf(m, file) ==
    LET normalized == NormalizeOf(m, LoadData(file))
        bucketed == BucketData(m, normalized, <<>>)
        finalized == FinalizeDates(normalized)
        done == Completed(m, finalized, bucketed)
    IN [processed_data |-> finalized,
        aggregated_result |->
            [b \in 1..done |->
                SummaryOf(m, bucketed[b].key, BucketRecords(finalized, bucketed[b]))],
        taxes_by_state_aggregated |->
            [b \in 1..done |->
                TaxSummaryOf(m, bucketed[b].key, BucketRecords(finalized, bucketed[b]))],
        raised |-> done < Len(bucketed)]

\* run(): data = self.load_data()
load_data ==
    /\ agg_pc \in {"idle", "aggregated", "written"}
    /\ agg_runs < MaxRuns
    /\ agg_runs' = agg_runs + 1
    /\ data' = LoadData(input_file)
    /\ agg_pc' = "loaded"
    /\ UNCHANGED <<pipe_vars, filter_vars, merger_vars, tax_csv, norm_calls, input_file, mode, buckets,
                   aggregated_result, taxes_by_state_aggregated>>

\* run(): self.normalize_shipping_and_taxes(data)
run_normalize ==
    /\ agg_pc = "loaded"
    /\ data' = NormalizeOf(mode, data)
    /\ agg_pc' = "normalized"
    /\ UNCHANGED <<pipe_vars, filter_vars, merger_vars, tax_csv, norm_calls, input_file, mode, agg_runs, buckets,
                   aggregated_result, taxes_by_state_aggregated>>

\* run(): self.bucket_data(data)
bucket_data ==
    /\ agg_pc = "normalized"
    /\ buckets' = BucketData(mode, data, buckets)
    /\ agg_pc' = "bucketed"
    /\ UNCHANGED <<pipe_vars, filter_vars, merger_vars, tax_csv, norm_vars, input_file, mode, agg_runs,
                   aggregated_result, taxes_by_state_aggregated>>

\* run(): self.finalize_dates(data); self.processed_data = data
finalize_dates ==
    /\ agg_pc = "bucketed"
    /\ data' = FinalizeDates(data)
    /\ agg_pc' = "finalized"
    /\ UNCHANGED <<pipe_vars, filter_vars, merger_vars, tax_csv, norm_calls, input_file, mode, agg_runs, buckets,
                   aggregated_result, taxes_by_state_aggregated>>

\* run(): self.aggregate(), one summary and one tax summary appended per
\* bucket, up to the first bucket whose summary raises
aggregate ==
    /\ agg_pc = "finalized"
    /\ LET done == Completed(mode, data, buckets)
       IN /\ aggregated_result' = aggregated_result \o
                 [b \in 1..done |->
                     SummaryOf(mode, buckets[b].key, BucketRecords(data, buckets[b]))]
          /\ taxes_by_state_aggregated' = taxes_by_state_aggregated \o
                 [b \in 1..done |->
                     TaxSummaryOf(mode, buckets[b].key, BucketRecords(data, buckets[b]))]
          /\ agg_pc' = IF done = Len(buckets) THEN "aggregated" ELSE "raised"
    /\ UNCHANGED <<pipe_vars, filter_vars, merger_vars, tax_csv, norm_vars, input_file, mode, agg_runs, buckets>>

\* the characters of the jurisdiction codes, by which sorted() orders them
Spelling ==
    [CA |-> <<"C", "A">>, NY |-> <<"N", "Y">>, TX |-> <<"T", "X">>]

\* x inserted behind every element that is <= it
RECURSIVE InsertStr(_, _)
InsertStr(x, sorted) ==
    IF sorted = <<>> THEN <<x>>
    ELSE IF StrLess(x, Head(sorted)) THEN <<x>> \o sorted
         ELSE <<Head(sorted)>> \o InsertStr(x, Tail(sorted))

\* sorted(time_values): a list of str, duplicates kept
RECURSIVE SortedList(_)
SortedList(seq) ==
    IF seq = <<>> THEN <<>>
    ELSE InsertStr(seq[Len(seq)], SortedList(SubSeq(seq, 1, Len(seq) - 1)))

\* sorted(item_keys): the codes of the set in the order of their characters
RECURSIVE SortedCodes(_)
SortedCodes(S) ==
    IF S = {} THEN <<>>
    ELSE LET least == CHOOSE x \in S : \A y \in S \ {x} : StrLess(Spelling[x], Spelling[y])
         IN <<least>> \o SortedCodes(S \ {least})

\* BlankCell as it would be if a missing combination were written as 0
BlankCell_Zero == Num(0)

\* result = {key: {t: "" for t in time_values} ...}: the cell before any entry
\* sets it
BlankCell == Text(<<>>)

\* result[key][time] after the entries from position i on have been stored:
\* the last entry of that time that has the key sets the cell
RECURSIVE CellFrom(_, _, _, _, _, _)
CellFrom(entries, time_key, key, time, cell, i) ==
    IF i > Len(entries) THEN cell
    ELSE CellFrom(entries, time_key, key, time,
                  IF entries[i][time_key] = time /\ key \in DOMAIN entries[i]
                  THEN Num(entries[i][key]) ELSE cell,
                  i + 1)

\* FileManager.write_transposed_csv(data, time_key, filename): the rows written
Transposed(entries, time_key) ==
    LET time_values == SortedList([k \in 1..Len(entries) |-> entries[k][time_key]])
        item_keys == SortedCodes(UNION {DOMAIN entries[k] \ {time_key} : k \in 1..Len(entries)})
    IN [header |-> <<<<>>>> \o time_values,
        rows |-> [r \in 1..Len(item_keys) |->
                    [key |-> item_keys[r],
                     cells |-> [c \in 1..Len(time_values) |->
                                  CellFrom(entries, time_key, item_keys[r], time_values[c],
                                           BlankCell, 1)]]]]

\* FileManager.write_transposed_csv called with the tax summaries of the
\* aggregator, the time key being "Month" if the first entry has it and "Day"
\* otherwise, as save_csv chooses it
write_transposed_csv ==
    /\ agg_pc = "aggregated"
    /\ taxes_by_state_aggregated # <<>>
    /\ tax_csv' = Transposed(taxes_by_state_aggregated,
                             IF "Month" \in DOMAIN taxes_by_state_aggregated[1]
                             THEN "Month" ELSE "Day")
    /\ agg_pc' = "written"
    /\ UNCHANGED <<pipe_vars, filter_vars, merger_vars, norm_vars, input_file, mode, agg_runs, buckets,
                   aggregated_result, taxes_by_state_aggregated>>

-----------------------------------------------------------------------------
(* FileManager and config: what exists on disk                              *)
(*                                                                          *)
(* A file is known by its state: "absent", "corrupt" (it cannot be decoded  *)
(* or parsed), "empty" (it parses to no rows) or "rows".  files holds the   *)
(* files a stage has opened or written; a file not in it is in the state    *)
(* the user left it in, which the stage that opens it finds out.            *)

\* config.py: the file names (the keys the code looks up and config.py sets)
config ==
    [combined_orders_csv |-> "all_orders_combined.csv",
     combined_transactions_csv |-> "all_transactions_combined.csv",
     filtered_orders_csv |-> "filtered_orders.csv",
     filtered_orders_json |-> "filtered_orders.json",
     pending_transactions_csv |-> "pending_transactions.csv",
     pending_transactions_json |-> "pending_transactions.json",
     transactions_csv |-> "transactions.csv",
     transactions_json |-> "transactions.json",
     matched_orders_csv |-> "matched_orders.csv",
     matched_orders_json |-> "matched_orders.json",
     unmatched_orders_csv |-> "unmatched_orders.csv",
     unmatched_orders_json |-> "unmatched_orders.json",
     aggregated_csv |-> "aggregated.csv",
     aggregated_json |-> "aggregated.json",
     intermediate_aggregation_csv |-> "intermit_aggregation.csv",
     intermediate_aggregation_json |-> "intermit_aggregation.json"]

\* FileManager.get_path(filename, filetype)
get_path(filename, filetype) ==
    [folder |-> IF filetype = "json" THEN "JSON" ELSE "CSV", name |-> filename]

\* _copy_to_root: the copy in the project root
RootCopy(filename) == [folder |-> "root", name |-> filename]

\* the raw exports config["order_input_files"] and
\* config["transaction_input_files"] name, each list taken as one input
OrderInputFiles == [folder |-> "root", name |-> "orders_export"]
TransactionInputFiles == [folder |-> "root", name |-> "payment_transactions_export"]

FileStates == {"absent", "corrupt", "empty", "rows"}

\* the states in which a stage can find the file at path
Found(fs, path) == IF path \in DOMAIN fs THEN {fs[path]} ELSE FileStates

Readable(state) == state \in {"empty", "rows"}

\* the exception open() or the parser raises on a file in that state
\* (JSONDecodeError, UnicodeDecodeError or the combiner's header ValueError)
ReadError(state) == IF state = "absent" THEN "FileNotFoundError" ELSE "DecodeError"

\* the file at path now holds the rows of data ("empty" or "rows")
Write(st, path, rows) ==
    [st EXCEPT !.files = (path :> rows) @@ @, !.written = @ \cup {path}]

\* FileManager.save_json(data, filename, copy_to_root)
save_json(st, rows, filename, copy_to_root) ==
    LET saved == Write(st, get_path(filename, "json"), rows)
    IN IF copy_to_root THEN Write(saved, RootCopy(filename), rows) ELSE saved

\* FileManager.save_csv(data, filename, copy_to_root): nothing for no data;
\* the elif looks up config["tax_by_state_aggregation_csv"]
save_csv(st, rows, filename, copy_to_root) ==
    IF rows = "empty" THEN st
    ELSE IF filename # config["aggregated_csv"]
             /\ "tax_by_state_aggregation_csv" \notin DOMAIN config
    THEN [st EXCEPT !.error = "KeyError"]
    ELSE LET saved == Write(st, get_path(filename, "csv"), rows)
         IN IF copy_to_root THEN Write(saved, RootCopy(filename), rows) ELSE saved

\* one statement of a save_outputs: the config key is looked up, then the
\* file is saved
Save(st, save) ==
    IF save.key \notin DOMAIN config THEN [st EXCEPT !.error = "KeyError"]
    ELSE IF save.kind = "json"
    THEN save_json(st, save.rows, config[save.key], save.copy)
    ELSE save_csv(st, save.rows, config[save.key], save.copy)

\* the statements of a save_outputs in order, up to the first that raises
RECURSIVE SaveAll(_, _)
SaveAll(st, saves) ==
    IF saves = <<>> \/ st.error # "none" THEN st
    ELSE SaveAll(Save(st, Head(saves)), Tail(saves))

\* DataPipelineManager.__init__ before run_all or run_selected is called
PipeIdle ==
    /\ files = <<>>
    /\ written = {}
    /\ run_state = "idle"
    /\ run_kind = "none"
    /\ run_steps = <<>>
    /\ run_next = 1
    /\ run_log = <<>>
    /\ run_error = "none"

Json(key, rows) == [kind |-> "json", key |-> key, rows |-> rows, copy |-> FALSE]
Csv(key, rows) == [kind |-> "csv", key |-> key, rows |-> rows, copy |-> FALSE]
ToRoot(save) == [save EXCEPT !.copy = TRUE]

-----------------------------------------------------------------------------
(* Inputs of the merger *)

Str1 == <<"#", "1">>
Str2 == <<"#", "2">>

IsoText(y, mo, d, hh, suffix) == [y |-> y, mo |-> mo, d |-> d, hh |-> hh, suffix |-> suffix]
JunkText == [junk |-> <<"n", "a">>]

\* a filtered order as OrderFilter writes it: every value a str
Order(name, shipping, taxes) ==
    ("Name" :> name) @@ ("Shipping" :> Text(shipping)) @@ ("Taxes" :> Text(taxes))

Order1 == Order(Str1, <<"5", ".", "0", "0">>, <<"2", ".", "0", "0">>)
Order2 == Order(Str2, <<"0", ".", "0", "0">>, <<"1", ".", "5", "0">>)

\* OrderFilter keeps one order per Name (seen_names)
OrderLists == {<<>>, <<Order1>>, <<Order2>>, <<Order1, Order2>>, <<Order2, Order1>>}

Tx(order, type, date, amount) ==
    ("Order" :> order) @@ ("Type" :> type) @@ ("Transaction Date" :> date)
        @@ ("Amount" :> Num(amount))

Without(r, k) == [f \in DOMAIN r \ {k} |-> r[f]]

TxPool ==
    { \* offset-bearing dates
      Tx(Str1, charge, IsoText(2025, 2, 5, 10, "Z"), 100000),
      Tx(Str1, charge, IsoText(2025, 2, 1, 9, "Z"), 90000),
      Tx(Str1, refund, IsoText(2025, 1, 31, 23, "-05:00"), 0 - 90000),
      Tx(Str2, charge, IsoText(2025, 2, 1, 9, "+00:00"), 40000)
          @@ ("Taxes" :> Text(<<"9", ".", "9", "9">>)),
      \* dates without offset, missing, empty or unparsable
      Without(Tx(Str1, charge, EmptyText, 10000), "Transaction Date"),
      Tx(Str2, <<"C", "h", "a", "r", "g", "e">>, JunkText, 20000),
      Tx(Str1, charge, IsoText(2025, 2, 3, 0, ""), 30000),
      Without(Tx(Str1, refund, EmptyText, 0 - 5000), "Order") }

RECURSIVE SeqsUpTo(_, _)
SeqsUpTo(S, n) ==
    IF n = 0 THEN {<<>>}
    ELSE LET shorter == SeqsUpTo(S, n - 1)
         IN shorter \cup {Append(s, x) : s \in {t \in shorter : Len(t) = n - 1}, x \in S}

MergeInit ==
    /\ filtered_orders \in OrderLists
    /\ transactions \in SeqsUpTo(TxPool, MaxTx)
    /\ processed_transactions = <<>>
    /\ unmatched_orders = <<>>
    /\ merger_calls = 0
    /\ merger_raised = FALSE
    /\ extracted = FALSE
    /\ data = <<>>
    /\ norm_calls = 0
    /\ AggIdle
    /\ PipeIdle
    /\ FilterIdle

MergeNext == process \/ extract_orders_without_transactions

SpecMerge == MergeInit /\ [][MergeNext]_vars

-----------------------------------------------------------------------------
(* Properties of the merger *)

TxIdx == 1..Len(transactions)
OutIdx == 1..Len(processed_transactions)

\* record rec holds every field of transaction tx with tx's value
BuiltFrom(rec, tx) == DOMAIN tx \subseteq DOMAIN rec /\ \A k \in DOMAIN tx : rec[k] = tx[k]

\* transaction tx is a charge referencing the order named name
ChargeOf(tx, name) ==
    /\ "Type" \in DOMAIN tx /\ tx["Type"] = charge
    /\ "Order" \in DOMAIN tx /\ tx["Order"] = name

References(tx, name) == "Order" \in DOMAIN tx /\ tx["Order"] = name

\* record rec carries the fields of the order named name
CarriesOrder(rec, name) == "Name" \in DOMAIN rec /\ rec["Name"] = name

\* one process() call on a fresh merger has completed
ProcessedOnce == merger_calls = 1

\* C1: after process(), every order referenced by at least one 'charge'
\* transaction has its fields on exactly one output record, that record is built
\* from a charge of the order with the earliest date among the order's charges,
\* and every other transaction referencing the order is in the output without
\* order fields.
C1_MergeExclusivity ==
    ProcessedOnce =>
        \A name \in FilteredNames(filtered_orders) :
            (\E j \in TxIdx : ChargeOf(transactions[j], name)) =>
                /\ Cardinality({i \in OutIdx : CarriesOrder(processed_transactions[i], name)}) = 1
                /\ \A i \in OutIdx :
                      CarriesOrder(processed_transactions[i], name) =>
                          \E j \in TxIdx :
                              /\ ChargeOf(transactions[j], name)
                              /\ BuiltFrom(processed_transactions[i], transactions[j])
                              /\ \A k \in TxIdx :
                                    ChargeOf(transactions[k], name) =>
                                        Hours(parse_date(transactions[j]))
                                            <= Hours(parse_date(transactions[k]))
                /\ Cardinality({i \in OutIdx :
                                  /\ References(processed_transactions[i], name)
                                  /\ "Name" \notin DOMAIN processed_transactions[i]})
                     = Cardinality({j \in TxIdx : References(transactions[j], name)}) - 1

\* C1 witness: the order '#1' has two charges, the later one first in the input,
\* and a refund; process() has run.
C1_Witness ==
    /\ ProcessedOnce
    /\ Len(transactions) = 3
    /\ ChargeOf(transactions[1], Str1) /\ ChargeOf(transactions[2], Str1)
    /\ Hours(parse_date(transactions[2])) < Hours(parse_date(transactions[1]))
    /\ References(transactions[3], Str1) /\ ~ChargeOf(transactions[3], Str1)
    /\ Str1 \in FilteredNames(filtered_orders)
    /\ BuiltFrom(processed_transactions[2], transactions[2])
    /\ CarriesOrder(processed_transactions[2], Str1)

Bijections(S, T) ==
    {f \in [S -> T] : \A a, b \in S : a # b => f[a] # f[b]}

\* C2: after process(), the output has as many records as there are input
\* transactions, and the records correspond one to one to the transactions.
C2_PassThroughComplete ==
    ProcessedOnce =>
        /\ Len(processed_transactions) = Len(transactions)
        /\ \E f \in Bijections(TxIdx, OutIdx) :
              \A j \in TxIdx : BuiltFrom(processed_transactions[f[j]], transactions[j])

\* C2 witness: three transactions, one merged and two passed through.
C2_Witness ==
    /\ ProcessedOnce
    /\ Len(transactions) = 3
    /\ Cardinality({i \in OutIdx : "Name" \in DOMAIN processed_transactions[i]}) = 1
    /\ Cardinality({i \in OutIdx : "Name" \notin DOMAIN processed_transactions[i]}) = 2

InUnmatched(order) == \E k \in 1..Len(unmatched_orders) : unmatched_orders[k] = order

\* C3: after extract_orders_without_transactions(), a filtered order is in
\* unmatched_orders iff no transaction of any Type has its Name as Order.
C3_UnmatchedCorrect ==
    extracted =>
        /\ \A i \in 1..Len(filtered_orders) :
              InUnmatched(filtered_orders[i]) <=>
                  ~\E j \in TxIdx : References(transactions[j], filtered_orders[i]["Name"])
        /\ \A k \in 1..Len(unmatched_orders) :
              \E i \in 1..Len(filtered_orders) : filtered_orders[i] = unmatched_orders[k]

\* C3 witness: an order referenced only by a refund is not unmatched and no
\* output record carries its fields, while another order is unmatched.
C3_Witness ==
    /\ extracted /\ ProcessedOnce
    /\ \E i \in 1..Len(filtered_orders) :
          /\ \E j \in TxIdx : References(transactions[j], filtered_orders[i]["Name"])
          /\ \A j \in TxIdx :
                References(transactions[j], filtered_orders[i]["Name"])
                    => transactions[j]["Type"] = refund
          /\ ~InUnmatched(filtered_orders[i])
          /\ \A k \in OutIdx :
                ~CarriesOrder(processed_transactions[k], filtered_orders[i]["Name"])
    /\ Len(unmatched_orders) = 1

\* the 'Transaction Date' of tx is missing, empty or unparsable
BadDate(tx) ==
    \/ "Transaction Date" \notin DOMAIN tx
    \/ "junk" \in DOMAIN tx["Transaction Date"]

\* process() has been called on the transaction list
ProcessCalled == merger_calls >= 1 \/ merger_raised

\* C4: with some dates missing or unparsable and the others valid ISO-8601
\* (offset-bearing ones included), process() does not raise, keeps every
\* transaction and puts the transactions with bad dates before all the others.
C4_BadDatesSortFirst ==
    (/\ ProcessCalled
     /\ \E j \in TxIdx : BadDate(transactions[j])
     /\ \E j \in TxIdx : ~BadDate(transactions[j]))
        => /\ ~merger_raised
           /\ Len(processed_transactions) >= Len(transactions)
           /\ \A a, b \in 1..Len(transactions) :
                 (/\ BadDate(processed_transactions[a])
                  /\ ~BadDate(processed_transactions[b])) => a < b

\* C13 as claimed, for the merge stage: after process() has run again on the
\* same merger with the same inputs, the merged table still has one row per
\* input transaction.
C13_RerunLeavesTablesEqual ==
    merger_calls >= 1 => Len(processed_transactions) = Len(transactions)

\* the order of filtered_orders that filtered_dict keeps for name
OrderNamed(name) ==
    filtered_orders[CHOOSE i \in 1..Len(filtered_orders) :
                        /\ filtered_orders[i]["Name"] = name
                        /\ \A k \in (i + 1)..Len(filtered_orders) :
                              filtered_orders[k]["Name"] # name]

\* rec has every key of tx and of order and no other, with tx's value where tx
\* has the key and order's value elsewhere
TransactionOverOrder(rec, tx, order) ==
    /\ DOMAIN rec = DOMAIN tx \cup DOMAIN order
    /\ \A k \in DOMAIN rec : rec[k] = IF k \in DOMAIN tx THEN tx[k] ELSE order[k]

\* C17: after process(), the output records correspond one to one to the
\* transactions so that each record either equals its transaction, field for
\* field, or, its transaction being a charge of a filtered order, has the
\* transaction's value for every key the transaction has and the order's value
\* for every other key of the order.
C17_OverlayAndPassThrough ==
    ProcessedOnce =>
        \E f \in Bijections(TxIdx, OutIdx) :
            \A j \in TxIdx :
                LET rec == processed_transactions[f[j]]
                    tx == transactions[j]
                IN \/ rec = tx
                   \/ /\ "Order" \in DOMAIN tx
                      /\ ChargeOf(tx, tx["Order"])
                      /\ tx["Order"] \in FilteredNames(filtered_orders)
                      /\ TransactionOverOrder(rec, tx, OrderNamed(tx["Order"]))

\* C17 witness: a charge that carries its own Taxes is merged with the order
\* '#2', whose Taxes differ, and keeps its own; a refund is passed through.
C17_Witness ==
    /\ ProcessedOnce
    /\ Len(transactions) = 2
    /\ \E i \in OutIdx :
          /\ CarriesOrder(processed_transactions[i], Str2)
          /\ processed_transactions[i]["Taxes"] = Text(<<"9", ".", "9", "9">>)
          /\ OrderNamed(Str2)["Taxes"] = Text(<<"1", ".", "5", "0">>)
          /\ processed_transactions[i]["Shipping"] = OrderNamed(Str2)["Shipping"]
    /\ \E i \in OutIdx, j \in TxIdx :
          /\ processed_transactions[i] = transactions[j]
          /\ transactions[j]["Type"] = refund

\* C18: after process(), the output is in non-decreasing order of parsed
\* Transaction Date whatever the order of the input, and records of equal date
\* stand in the order their transactions had in the input.
C18_ChronologicalStable ==
    ProcessedOnce =>
        /\ \A a, b \in OutIdx :
              a < b => Hours(parse_date(processed_transactions[a]))
                           <= Hours(parse_date(processed_transactions[b]))
        /\ \E f \in Bijections(TxIdx, OutIdx) :
              /\ \A j \in TxIdx : BuiltFrom(processed_transactions[f[j]], transactions[j])
              /\ \A j, k \in TxIdx :
                    (/\ j < k
                     /\ Hours(parse_date(transactions[j])) = Hours(parse_date(transactions[k])))
                        => f[j] < f[k]

\* C18 witness: three transactions given latest first, the last two of the
\* same instant and of different orders; the output has the latest last and
\* the two others in their input order.
C18_Witness ==
    /\ ProcessedOnce
    /\ Len(transactions) = 3
    /\ Hours(parse_date(transactions[1])) > Hours(parse_date(transactions[2]))
    /\ Hours(parse_date(transactions[2])) = Hours(parse_date(transactions[3]))
    /\ transactions[2]["Order"] = Str2 /\ transactions[3]["Order"] = Str1
    /\ BuiltFrom(processed_transactions[1], transactions[2])
    /\ BuiltFrom(processed_transactions[2], transactions[3])
    /\ BuiltFrom(processed_transactions[3], transactions[1])

-----------------------------------------------------------------------------
(* Inputs of the normalizer *)

MergerIdle ==
    /\ filtered_orders = <<>>
    /\ transactions = <<>>
    /\ processed_transactions = <<>>
    /\ unmatched_orders = <<>>
    /\ merger_calls = 0
    /\ merger_raised = FALSE
    /\ extracted = FALSE

\* a merged record: the order's fields under the transaction's
Merged(order, type, amount) ==
    Overlay(order, ("Order" :> order["Name"]) @@ ("Type" :> type) @@ ("Amount" :> Num(amount)))

\* a transaction passed through
Passed(order, type, amount) ==
    ("Order" :> order) @@ ("Type" :> type) @@ ("Amount" :> Num(amount))

NormPool ==
    { Merged(Order1, charge, 30000),
      Passed(Str1, refund, 0 - 50000),
      Passed(Str1, refund, 0 - 30000),
      Passed(Str1, refund, 0 - 10000),
      Passed(Str1, charge, 20000),
      Merged(Order2, charge, 0 - 10000),
      Passed(Str2, <<"C", "h", "a", "r", "g", "e">>, 0 - 5000)
          @@ ("Taxes" :> Num(700)),
      Without(Passed(Str2, refund, 0), "Amount") }

NormInit ==
    /\ MergerIdle
    /\ data \in SeqsUpTo(NormPool, MaxRecs)
    /\ norm_calls = 0
    /\ AggIdle
    /\ PipeIdle
    /\ FilterIdle

NormNext == normalize_shipping_and_taxes

SpecNorm == NormInit /\ [][NormNext]_vars

-----------------------------------------------------------------------------
(* Properties of the normalizer *)

DataIdx == 1..Len(data)

\* the positions of the records whose Order is name
GroupOf(name) == {j \in DataIdx : "Order" \in DOMAIN data[j] /\ data[j]["Order"] = name}

RECURSIVE AmountSum(_)
AmountSum(G) ==
    IF G = {} THEN 0
    ELSE LET j == CHOOSE x \in G : TRUE
         IN (IF "Amount" \in DOMAIN data[j] THEN Float(data[j]["Amount"]) ELSE 0)
                + AmountSum(G \ {j})

\* the group of a record carrying Name qualifies: more than one member and an
\* Amount sum <= 0
Qualifies(i) ==
    /\ "Name" \in DOMAIN data[i]
    /\ Cardinality(GroupOf(data[i]["Name"])) > 1
    /\ AmountSum(GroupOf(data[i]["Name"])) <= 0

IsZeroed(rec) ==
    /\ "Shipping" \in DOMAIN rec /\ rec["Shipping"] = Num(0)
    /\ "Taxes" \in DOMAIN rec /\ rec["Taxes"] = Num(0)

\* C5: after normalize_shipping_and_taxes, every 'charge' member of the group
\* of a record carrying Name has Shipping = 0 and Taxes = 0 when the group has
\* more than one member and an Amount sum <= 0.
C5_QualifyingChargesZeroed ==
    norm_calls >= 1 =>
        \A i \in DataIdx :
            Qualifies(i) =>
                \A j \in GroupOf(data[i]["Name"]) :
                    ("Type" \in DOMAIN data[j] /\ data[j]["Type"] = charge) => IsZeroed(data[j])

\* C5 witness: the scenario of the specification, a charge of 30.00 with
\* Shipping 5.00 and Taxes 2.00 and a refund of -50.00 for the same order.
C5_Witness ==
    /\ norm_calls = 1
    /\ Len(data) = 2
    /\ Qualifies(1)
    /\ FloatGet(data[1], "Amount") = 30000 /\ FloatGet(data[2], "Amount") = 0 - 50000
    /\ data[1]["Name"] = Str1 /\ data[1]["Type"] = charge
    /\ IsZeroed(data[1])

\* C6: a second normalize_shipping_and_taxes in a row leaves the records as
\* the first left them.
C6_NormalizeIdempotent == [][norm_calls >= 1 => data' = data]_vars

\* C6 witness: normalized twice, and the first pass had changed a record.
C6_Witness ==
    /\ norm_calls = 2
    /\ \E i \in DataIdx : Qualifies(i) /\ data[i]["Type"] = charge /\ IsZeroed(data[i])

\* after is before with Shipping and Taxes set to 0 and nothing else changed
ZeroedFrom(after, before) ==
    /\ DOMAIN after = DOMAIN before \cup {"Shipping", "Taxes"}
    /\ IsZeroed(after)
    /\ \A k \in DOMAIN before \ {"Shipping", "Taxes"} : after[k] = before[k]

\* the record at position i is a 'charge' of the group of some record that
\* carries the group's key as Name, the group qualifying
AdjustableCharge(i) ==
    /\ "Type" \in DOMAIN data[i] /\ data[i]["Type"] = charge
    /\ \E j \in DataIdx : Qualifies(j) /\ i \in GroupOf(data[j]["Name"])

\* C19: normalize_shipping_and_taxes keeps the list's length and every record
\* as it was, except that a record with Type exactly 'charge' in a qualifying
\* group (more than one member, Amount sum <= 0, a record carrying the group's
\* key as Name) gets Shipping = 0 and Taxes = 0 and nothing else changed.
C19_NormalizeFrame ==
    [][/\ Len(data') = Len(data)
       /\ \A i \in DataIdx :
             \/ data'[i] = data[i]
             \/ AdjustableCharge(i) /\ ZeroedFrom(data'[i], data[i])]_vars

\* C19 witness: after normalization, a qualifying group whose 'charge' is
\* zeroed while its refund has no Shipping or Taxes of 0, next to a charge of
\* negative Amount that is alone in its group and keeps its order's Shipping.
C19_Witness ==
    /\ norm_calls = 1
    /\ Len(data) = 3
    /\ \E i, j, k \in DataIdx :
          /\ Qualifies(i) /\ data[i]["Type"] = charge /\ IsZeroed(data[i])
          /\ j \in GroupOf(data[i]["Name"])
          /\ data[j]["Type"] = refund /\ ~IsZeroed(data[j])
          /\ "Name" \in DOMAIN data[k]
          /\ GroupOf(data[k]["Name"]) = {k}
          /\ FloatGet(data[k], "Amount") < 0
          /\ data[k]["Type"] = charge /\ ~IsZeroed(data[k])

-----------------------------------------------------------------------------
(* Inputs of the aggregator: records of matched_orders.json *)

Str7 == <<"#", "7">>
Str10 == <<"#", "1", "0">>

Feb1 == IsoText(2025, 2, 1, 9, "Z")
Feb5 == IsoText(2025, 2, 5, 10, "Z")

Dated(date, type, amount) ==
    ("Transaction Date" :> date) @@ ("Type" :> type) @@ ("Amount" :> Num(amount))

\* records told apart by their dates
DatePool ==
    { Dated(Feb1, charge, 10000),
      Dated(Feb5, charge, 20000),
      Dated(IsoText(2025, 1, 31, 23, "-05:00"), refund, 0 - 30000),
      Dated(IsoText(2025, 2, 1, 0, ""), charge, 40000),
      Dated(IsoText(2025, 1, 5, 10, "+02:00"), charge, 50000) }

\* records with amounts of two and of three decimals
AmountPool ==
    { Dated(Feb1, charge, 1004) @@ ("Fee" :> Num(4))
          @@ ("Shipping" :> Text(<<"0", ".", "0", "0", "4">>))
          @@ ("Taxes" :> Text(<<"0", ".", "0", "0", "4">>)),
      Overlay(Order1, Dated(Feb1, charge, 100000)) @@ ("Fee" :> Num(3200))
          @@ ("Net" :> Num(96800)) @@ ("Order" :> Str1)
          @@ ("Subtotal" :> Text(<<"9", "3", ".", "0", "0">>))
          @@ ("Total" :> Text(<<"1", "0", "0", ".", "0", "0">>))
          @@ ("Discount Amount" :> Text(<<"1", ".", "5", "0">>)),
      Dated(Feb5, refund, 0 - 50000) @@ ("Fee" :> Num(0)) @@ ("Net" :> Num(0 - 50000)),
      Dated(Feb1, charge, 6) @@ ("Fee" :> Num(2)) @@ ("Taxes" :> Num(8)),
      Dated(Feb5, charge, 19990) }

\* records of every kind of Type
TypePool ==
    { Dated(Feb1, <<"R", "e", "f", "u", "n", "d">>, 0 - 5000) @@ ("Order" :> Str7),
      Dated(Feb1, <<"c", "h", "a", "r", "g", "e", "b", "a", "c", "k">>, 15000)
          @@ ("Order" :> Str7),
      Dated(Feb1, <<"C", "h", "a", "r", "g", "e", "b", "a", "c", "k">>, 2500)
          @@ ("Order" :> Str10),
      Dated(Feb1, <<"C", "H", "A", "R", "G", "E">>, 40000) @@ ("Order" :> Str10),
      Without(Dated(Feb5, charge, 1000), "Type"),
      Dated(Feb5, <<"a", "d", "j", "u", "s", "t">>, 0 - 3000) @@ ("Order" :> Str7) }

\* records with and without Tax Breakdown and Taxes
TaxPool ==
    { Dated(Feb1, charge, 50000) @@ ("Taxes" :> Text(<<"2", ".", "0", "0">>))
          @@ ("Tax Breakdown" :> [CA |-> Num(1250), NY |-> Num(750)]),
      Dated(Feb1, charge, 30000) @@ ("Taxes" :> Num(0))
          @@ ("Tax Breakdown" :> [CA |-> Num(3000)]),
      Dated(Feb5, refund, 0 - 20000) @@ ("Taxes" :> Num(0 - 1000))
          @@ ("Tax Breakdown" :> [NY |-> Num(0 - 1000)]),
      Dated(Feb1, charge, 10000) @@ ("Tax Breakdown" :> [CA |-> Num(9990)]),
      Dated(Feb5, charge, 15000) @@ ("Taxes" :> Text(<<"1", ".", "5", "0">>)),
      Dated(Feb5, charge, 5000) @@ ("Taxes" :> Num(526))
          @@ ("Tax Breakdown" :> [NY |-> Num(126), TX |-> Text(<<"0", ".", "4", "0">>)]) }

\* records lacking summed fields, and one whose Discount Amount is the empty
\* str of an empty CSV cell
SparsePool ==
    { ("Transaction Date" :> Feb1),
      ("Transaction Date" :> Feb1) @@ ("Type" :> charge) @@ ("Fee" :> Num(1250))
          @@ ("Net" :> Num(0 - 1250)),
      Dated(Feb1, charge, 80000) @@ ("Shipping" :> Text(<<"5", ".", "0", "0">>))
          @@ ("Taxes" :> Num(6400)) @@ ("Subtotal" :> Text(<<"6", "8", ".", "6", "0">>))
          @@ ("Total" :> Text(<<"8", "0", ".", "0", "0">>))
          @@ ("Discount Amount" :> Text(<<"2", ".", "0", "0">>)),
      Dated(Feb5, charge, 30000) @@ ("Discount Amount" :> Text(<<>>)) }

\* an order charged on 20 January and refunded in full on 5 February, a
\* further charge of that order, and an order charged and not refunded
RefundPool ==
    { Overlay(Order1, Dated(IsoText(2025, 1, 20, 9, "Z"), charge, 30000))
          @@ ("Order" :> Str1) @@ ("Tax Breakdown" :> [CA |-> Num(1250), NY |-> Num(750)]),
      Dated(Feb5, refund, 0 - 30000) @@ ("Order" :> Str1),
      Dated(Feb1, charge, 10000) @@ ("Order" :> Str1)
          @@ ("Shipping" :> Num(3000)) @@ ("Taxes" :> Num(500))
          @@ ("Tax Breakdown" :> [TX |-> Num(500)]),
      Overlay(Order2, Dated(Feb5, charge, 40000))
          @@ ("Order" :> Str2) @@ ("Tax Breakdown" :> [NY |-> Num(1500)]) }

AggPools == {DatePool, AmountPool, TypePool, TaxPool, SparsePool, RefundPool}

AggInit ==
    /\ MergerIdle
    /\ data = <<>>
    /\ norm_calls = 0
    /\ \E pool \in AggPools : input_file \in SeqsUpTo(pool, MaxRecs)
    /\ mode \in {"monthly", "daily", "standalone"}
    /\ agg_pc = "idle"
    /\ agg_runs = 0
    /\ buckets = <<>>
    /\ aggregated_result = <<>>
    /\ taxes_by_state_aggregated = <<>>
    /\ tax_csv = NoCsv
    /\ PipeIdle
    /\ FilterIdle

AggNext ==
    \/ load_data
    \/ run_normalize
    \/ bucket_data
    \/ finalize_dates
    \/ aggregate
    \/ write_transposed_csv

SpecAgg == AggInit /\ [][AggNext]_vars

-----------------------------------------------------------------------------
(* Properties of the aggregator *)

BucketIdx == 1..Len(buckets)

\* the places (bucket, position) at which the item i of data is held
PlacesOf(i) ==
    {<<b, k>> \in BucketIdx \X DataIdx : k <= Len(buckets[b].items) /\ buckets[b].items[k] = i}

\* key is the date dt truncated to its month, or to its day
TruncatedTo(key, dt) ==
    /\ Len(key) = (IF mode = "monthly" THEN 7 ELSE 10)
    /\ DigitsValue(SubSeq(key, 1, 4)) = dt.y
    /\ key[5] = "-"
    /\ DigitsValue(SubSeq(key, 6, 7)) = dt.mo
    /\ mode = "daily" => key[8] = "-" /\ DigitsValue(SubSeq(key, 9, 10)) = dt.d

\* C7: after bucket_data(data) every record of data is in exactly one bucket,
\* that of its Transaction Date truncated to YYYY-MM (monthly) or YYYY-MM-DD
\* (daily); the buckets hold nothing else, no two buckets share a key, and a
\* bucket keeps its records in their input order.
C7_BucketPartition ==
    agg_pc = "bucketed" =>
        /\ \A i \in DataIdx : Cardinality(PlacesOf(i)) = 1
        /\ \A b \in BucketIdx :
              /\ Len(buckets[b].items) >= 1
              /\ \A k \in 1..Len(buckets[b].items) :
                    /\ buckets[b].items[k] \in DataIdx
                    /\ TruncatedTo(buckets[b].key,
                                   data[buckets[b].items[k]]["Transaction Date"])
              /\ \A k, l \in 1..Len(buckets[b].items) :
                    k < l => buckets[b].items[k] < buckets[b].items[l]
        /\ \A b, c \in BucketIdx : b # c => buckets[b].key # buckets[c].key

\* C7 witness: three records bucketed, the first and the third in one bucket
\* and the second in another.
C7_Witness ==
    /\ agg_pc = "bucketed"
    /\ Len(data) = 3
    /\ Len(buckets) = 2
    /\ buckets[1].items = <<1, 3>>
    /\ buckets[2].items = <<2>>

\* the bucket the n-th summary was made from (every run() summarizes the
\* buckets in order)
BucketOfSummary(n) == buckets[((n - 1) % Len(buckets)) + 1]

RecordsOfSummary(n) == BucketRecords(data, BucketOfSummary(n))

Summarized == agg_pc = "aggregated"

\* the sum of float(r.get(field, 0)) over the records at the positions of I
RECURSIVE FieldSum(_, _, _)
FieldSum(records, I, field) ==
    IF I = {} THEN 0
    ELSE LET k == CHOOSE x \in I : TRUE
         IN (IF field \in DOMAIN records[k] THEN Float(records[k][field]) ELSE 0)
                + FieldSum(records, I \ {k}, field)

AllOf(records) == 1..Len(records)

\* every summed input of the records has at most two decimals
TwoDecimals(records) ==
    \A k \in AllOf(records) : \A f \in {"Amount", "Fee", "Shipping", "Taxes"} :
        f \in DOMAIN records[k] => Float(records[k][f]) % 10 = 0

TotalOfOutputs(summary) ==
    Round2(summary["Amount"] - summary["Fee"] - summary["Shipping"] - summary["Taxes"])

\* C8 as claimed: every summary's Total equals round(Amount - Fee - Shipping -
\* Taxes, 2) computed from the summary's own rounded output values, for any
\* input amounts.
C8_TotalOfRoundedOutputs ==
    Summarized =>
        \A n \in 1..Len(aggregated_result) :
            aggregated_result[n]["Total"] = TotalOfOutputs(aggregated_result[n])

\* C8 as amended: every summary's Total equals round(a - f - s - t, 2) of the
\* accumulated sums before rounding, and it equals the value computed from the
\* rounded outputs whenever every summed input has at most two decimals.
C8_TotalOfAccumulatedSums ==
    Summarized =>
        \A n \in 1..Len(aggregated_result) :
            LET recs == RecordsOfSummary(n)
                all == AllOf(recs)
            IN /\ aggregated_result[n]["Total"] =
                      Round2(FieldSum(recs, all, "Amount") - FieldSum(recs, all, "Fee")
                                 - FieldSum(recs, all, "Shipping") - FieldSum(recs, all, "Taxes"))
               /\ TwoDecimals(recs) =>
                      aggregated_result[n]["Total"] = TotalOfOutputs(aggregated_result[n])

\* C8 witness: a summary over inputs of three decimals whose Total differs from
\* the value computed from its rounded outputs, and a summary over inputs of
\* two decimals with non-zero Fee, Shipping and Taxes.
C8_Witness ==
    /\ Summarized
    /\ Len(aggregated_result) = 2
    /\ ~TwoDecimals(RecordsOfSummary(1))
    /\ aggregated_result[1]["Total"] # TotalOfOutputs(aggregated_result[1])
    /\ TwoDecimals(RecordsOfSummary(2))
    /\ aggregated_result[2]["Amount"] # 0

\* the state codes of the inputs
StateCodes == {"CA", "NY", "TX"}

\* the records that count for the jurisdiction st: Tax Breakdown present and
\* naming st, Taxes present and > 0
Contributors(records, st) ==
    {k \in AllOf(records) :
        /\ "Tax Breakdown" \in DOMAIN records[k]
        /\ st \in DOMAIN records[k]["Tax Breakdown"]
        /\ "Taxes" \in DOMAIN records[k]
        /\ Float(records[k]["Taxes"]) > 0}

RECURSIVE BreakdownSum(_, _, _)
BreakdownSum(records, I, st) ==
    IF I = {} THEN 0
    ELSE LET k == CHOOSE x \in I : TRUE
         IN Float(records[k]["Tax Breakdown"][st]) + BreakdownSum(records, I \ {k}, st)

\* C9: each jurisdiction total of a tax summary is the sum (rounded to two
\* decimals) of the breakdown amounts of exactly the records with Tax Breakdown
\* present and Taxes > 0; a record with Taxes <= 0, without Taxes or without
\* Tax Breakdown adds nothing, and a jurisdiction no counting record names has
\* no total.
C9_TaxPositivityFilter ==
    Summarized =>
        \A n \in 1..Len(taxes_by_state_aggregated) :
            LET recs == RecordsOfSummary(n)
                tax == taxes_by_state_aggregated[n]
            IN /\ DOMAIN tax \subseteq StateCodes \cup {PeriodLabel(mode)}
               /\ tax[PeriodLabel(mode)] = BucketOfSummary(n).key
               /\ \A st \in StateCodes :
                     IF Contributors(recs, st) = {}
                     THEN st \notin DOMAIN tax
                     ELSE /\ st \in DOMAIN tax
                          /\ tax[st] = Round2(BreakdownSum(recs, Contributors(recs, st), st))

\* C9 witness: a bucket with a record that counts (Taxes 2.00, CA 1.25) and a
\* record with a non-empty Tax Breakdown and Taxes 0 (CA 3.00): CA totals 1.25.
C9_Witness ==
    /\ Summarized
    /\ Len(taxes_by_state_aggregated) = 1
    /\ Len(data) = 2
    /\ \E k \in 1..2 :
          /\ "Tax Breakdown" \in DOMAIN data[k] /\ "Taxes" \in DOMAIN data[k]
          /\ "CA" \in DOMAIN data[k]["Tax Breakdown"]
          /\ Float(data[k]["Tax Breakdown"]["CA"]) = 3000
          /\ Float(data[k]["Taxes"]) = 0
    /\ Contributors(data, "CA") # {}
    /\ taxes_by_state_aggregated[1]["CA"] = 1250

\* the Type of a record compared case-insensitively
TypeIs(r, t) == "Type" \in DOMAIN r /\ Lower(r["Type"]) = t

Refunds(records) == {k \in AllOf(records) : TypeIs(records[k], refund)}

Others(records) ==
    {k \in AllOf(records) : ~TypeIs(records[k], refund) /\ ~TypeIs(records[k], charge)}

LabelOf(r) == IF "Type" \in DOMAIN r THEN Lower(r["Type"]) ELSE <<>>

\* the position of the first of the records at the positions of I labelled t
FirstSeen(records, I, t) ==
    CHOOSE k \in I :
        /\ LabelOf(records[k]) = t
        /\ \A l \in I : LabelOf(records[l]) = t => k <= l

\* C10: in every summary, Refund is the (rounded) sum of Amount over the
\* 'refund' records and Other that over the records that are neither 'refund'
\* nor 'charge', Type compared case-insensitively; OtherTypes lists the distinct
\* lowercased labels of those other records in first-seen order, and
\* OtherTypeOrders the distinct Order values of those that carry Order, sorted.
C10_TypeClassification ==
    Summarized =>
        \A n \in 1..Len(aggregated_result) :
            LET recs == RecordsOfSummary(n)
                s == aggregated_result[n]
                types == s["OtherTypes"]
                orders == s["OtherTypeOrders"]
                others == Others(recs)
                first == [k \in 1..Len(types) |-> FirstSeen(recs, others, types[k])]
            IN /\ s["Refund"] = Round2(FieldSum(recs, Refunds(recs), "Amount"))
               /\ s["Other"] = Round2(FieldSum(recs, others, "Amount"))
               /\ {types[k] : k \in 1..Len(types)} = {LabelOf(recs[k]) : k \in others}
               /\ \A k, l \in 1..Len(types) :
                     k < l => types[k] # types[l] /\ first[k] < first[l]
               /\ {orders[k] : k \in 1..Len(orders)}
                      = {recs[k]["Order"] : k \in {o \in others : "Order" \in DOMAIN recs[o]}}
               /\ \A k, l \in 1..Len(orders) : k < l => StrLess(orders[k], orders[l])

\* C10 witness: the scenario of the specification (one record of Type
\* 'chargeback', Amount 15, Order '#7') together with a 'Chargeback' for '#10'
\* and a 'CHARGE' in the same bucket.
C10_Witness ==
    /\ Summarized
    /\ Len(aggregated_result) = 1
    /\ Len(data) = 3
    /\ aggregated_result[1]["Other"] = 17500
    /\ aggregated_result[1]["Refund"] = 0
    /\ aggregated_result[1]["Amount"] = 57500
    /\ aggregated_result[1]["OtherTypes"] = <<<<"c", "h", "a", "r", "g", "e", "b", "a", "c", "k">>>>
    /\ aggregated_result[1]["OtherTypeOrders"] = <<Str10, Str7>>

\* the output field of the summary that sums the input key
OutputOf(key) ==
    CASE key = "Discount Amount" -> "Discount"
      [] key = "Total" -> "OrderGross"
      [] OTHER -> key

\* the records of the list that carry the key
Carrying(records, key) == {k \in AllOf(records) : key \in DOMAIN records[k]}

\* some record of the list lacks some summed key
Sparse(records) == \E key \in SummedKeys(mode) : Carrying(records, key) # AllOf(records)

\* C11: every summed field of a summary is the (rounded) sum over the records
\* of the bucket that carry the field, so a record lacking it adds 0 to it and
\* its own value to every field it does carry; Transaction Count counts every
\* record of the bucket; and the summary raises only for a value that is
\* present and is no number, never for an absent field.
C11_MissingFieldsCountZero ==
    /\ Summarized =>
           \A n \in 1..Len(aggregated_result) :
               LET recs == RecordsOfSummary(n)
                   s == aggregated_result[n]
               IN /\ s["Transaction Count"] = Len(recs)
                  /\ \A key \in SummedKeys(mode) :
                        s[OutputOf(key)] = Round2(FieldSum(recs, Carrying(recs, key), key))
    /\ agg_pc = "raised" =>
           \E i \in DataIdx :
               \/ \E key \in SummedKeys(mode) \cap DOMAIN data[i] :
                      "str" \in DOMAIN data[i][key] /\ ~IsDecimal(data[i][key].str)
               \/ /\ "Tax Breakdown" \in DOMAIN data[i]
                  /\ \E st \in DOMAIN data[i]["Tax Breakdown"] :
                        /\ "str" \in DOMAIN data[i]["Tax Breakdown"][st]
                        /\ ~IsDecimal(data[i]["Tax Breakdown"][st].str)

\* C11 witness: one bucket of three records, one with nothing but its date, one
\* with Fee but no Amount and one with Amount but no Fee; the summary counts 3
\* and carries the Amount of the one and the Fee of the other.
C11_Witness ==
    /\ Summarized
    /\ Len(aggregated_result) = 1
    /\ Len(RecordsOfSummary(1)) = 3
    /\ Sparse(RecordsOfSummary(1))
    /\ \E k \in 1..3 : DOMAIN RecordsOfSummary(1)[k] = {"Transaction Date"}
    /\ aggregated_result[1]["Transaction Count"] = 3
    /\ aggregated_result[1]["Amount"] = 80000
    /\ aggregated_result[1]["Fee"] = 1250

\* the positions of the records of the input that refer to the order name
Referring(name) ==
    {j \in 1..Len(input_file) :
        "Order" \in DOMAIN input_file[j] /\ input_file[j]["Order"] = name}

\* the record at position k of the input is a charge of a matched order (some
\* record carries the order's Name) that at least two records refer to, their
\* Amount sum being <= 0
ChargeOfReversedOrder(k) ==
    LET r == input_file[k] IN
    /\ "Type" \in DOMAIN r /\ r["Type"] = charge
    /\ "Order" \in DOMAIN r
    /\ \E j \in 1..Len(input_file) :
          "Name" \in DOMAIN input_file[j] /\ input_file[j]["Name"] = r["Order"]
    /\ Cardinality(Referring(r["Order"])) > 1
    /\ FieldSum(input_file, Referring(r["Order"]), "Amount") <= 0

\* the positions of the records the n-th summary was made from
PositionsOfSummary(n) ==
    {BucketOfSummary(n).items[k] : k \in 1..Len(BucketOfSummary(n).items)}

\* C22: after run() has normalized, bucketed and summarized, the Shipping and
\* the Taxes of every period summary are the rounded sums over the period's
\* input records other than the charges of reversed orders (matched orders
\* with at least two referring records whose Amount sum is <= 0), and a
\* jurisdiction total of the period is the rounded sum over those records
\* with Taxes > 0 whose Tax Breakdown names it, whichever periods the other
\* records of the order fall in.
C22_ReversedChargesCountZero ==
    Summarized =>
        \A n \in 1..Len(aggregated_result) :
            LET kept == {k \in PositionsOfSummary(n) : ~ChargeOfReversedOrder(k)}
                taxes == taxes_by_state_aggregated[n]
            IN /\ aggregated_result[n]["Shipping"]
                      = Round2(FieldSum(input_file, kept, "Shipping"))
               /\ aggregated_result[n]["Taxes"] = Round2(FieldSum(input_file, kept, "Taxes"))
               /\ \A st \in StateCodes :
                     LET counted == kept \cap Contributors(input_file, st)
                     IN /\ st \in DOMAIN taxes <=> counted # {}
                        /\ counted # {} =>
                              taxes[st] = Round2(BreakdownSum(input_file, counted, st))

\* C22 witness: the charge of order #1 on 20 January carries Shipping 5.00,
\* Taxes 2.00 and a Tax Breakdown, its refund falls on 5 February; the
\* January summary has Shipping 0 and Taxes 0 and no jurisdiction total,
\* while the charge of order #2 on 5 February counts with Taxes 1.50.
C22_Witness ==
    /\ Summarized
    /\ Len(input_file) = 3
    /\ Len(aggregated_result) = 2
    /\ ChargeOfReversedOrder(1)
    /\ Float(input_file[1]["Shipping"]) = 5000 /\ Float(input_file[1]["Taxes"]) = 2000
    /\ "Tax Breakdown" \in DOMAIN input_file[1]
    /\ PositionsOfSummary(1) = {1}
    /\ aggregated_result[1]["Shipping"] = 0 /\ aggregated_result[1]["Taxes"] = 0
    /\ DOMAIN taxes_by_state_aggregated[1] = {PeriodLabel(mode)}
    /\ PositionsOfSummary(2) = {2, 3}
    /\ aggregated_result[2]["Taxes"] = 1500
    /\ taxes_by_state_aggregated[2]["NY"] = 1500

\* seq written n times over
RECURSIVE Repeated(_, _)
Repeated(seq, n) == IF n = 0 THEN <<>> ELSE Repeated(seq, n - 1) \o seq

\* the other of the two daily classes
OtherDaily == IF mode = "daily" THEN "standalone" ELSE "daily"

\* C23: whatever one of the two daily aggregators (Daily of aggregate.py,
\* the one of aggregate_daily.py) has left when aggregate() returned or
\* raised, the other leaves on the same input: the same normalized records,
\* the same day summaries in the same order, tax summaries that are equal as
\* mappings, and a raise in the one exactly when in the other.
C23_DailyAggregatorsAgree ==
    (mode \in {"daily", "standalone"} /\ agg_pc \in {"aggregated", "raised"}) =>
        LET other == RunOf(OtherDaily, input_file)
        IN /\ data = other.processed_data
           /\ aggregated_result = Repeated(other.aggregated_result, agg_runs)
           /\ taxes_by_state_aggregated = Repeated(other.taxes_by_state_aggregated, agg_runs)
           /\ (agg_pc = "raised") = other.raised

\* C23 witness: the class of aggregate_daily.py has summarized two days; the
\* charge of 20 January, refunded on 5 February, was zeroed by its
\* normalization, and the summary of 20 January shows Shipping 0.
C23_Witness ==
    /\ mode = "standalone"
    /\ Summarized
    /\ Len(aggregated_result) = 2
    /\ ChargeOfReversedOrder(1)
    /\ Float(input_file[1]["Shipping"]) = 5000
    /\ data[1]["Shipping"] = Num(0)
    /\ PositionsOfSummary(1) = {1}
    /\ aggregated_result[1]["Shipping"] = 0
    /\ aggregated_result[1]["Amount"] = 30000

\* the periods of the tax summaries are all different
DistinctPeriods ==
    \A k, l \in 1..Len(taxes_by_state_aggregated) :
        k # l => taxes_by_state_aggregated[k][PeriodLabel(mode)]
                     # taxes_by_state_aggregated[l][PeriodLabel(mode)]

\* the tax summary of the period
SummaryOfPeriod(period) ==
    taxes_by_state_aggregated[
        CHOOSE k \in 1..Len(taxes_by_state_aggregated) :
            taxes_by_state_aggregated[k][PeriodLabel(mode)] = period]

\* C15: write_transposed_csv, given one tax summary per period, writes a header
\* of "" and the periods in ascending order, and one row per jurisdiction code
\* of any summary, the codes ascending; the cell of a code under a period is
\* that period's total for the code when its summary has the code, and the
\* empty string otherwise.
C15_TransposedLayout ==
    (agg_pc = "written" /\ DistinctPeriods) =>
        LET label == PeriodLabel(mode)
            taxes == taxes_by_state_aggregated
            columns == Tail(tax_csv.header)
            rows == tax_csv.rows
        IN /\ Head(tax_csv.header) = <<>>
           /\ Len(columns) = Len(taxes)
           /\ {columns[c] : c \in 1..Len(columns)} = {taxes[k][label] : k \in 1..Len(taxes)}
           /\ \A c, d \in 1..Len(columns) : c < d => StrLess(columns[c], columns[d])
           /\ {rows[r].key : r \in 1..Len(rows)}
                  = UNION {DOMAIN taxes[k] \ {label} : k \in 1..Len(taxes)}
           /\ \A r, q \in 1..Len(rows) :
                 r < q => StrLess(Spelling[rows[r].key], Spelling[rows[q].key])
           /\ \A r \in 1..Len(rows) :
                 /\ Len(rows[r].cells) = Len(columns)
                 /\ \A c \in 1..Len(columns) :
                       LET summary == SummaryOfPeriod(columns[c])
                       IN rows[r].cells[c] =
                              IF rows[r].key \in DOMAIN summary
                              THEN [num |-> summary[rows[r].key]]
                              ELSE [str |-> <<>>]

\* C15 witness: the summary of 5 February stands before that of 1 February;
\* the file has the columns 1 February, 5 February and the rows CA, NY, TX,
\* with CA blank under 5 February and TX blank under 1 February.
C15_Witness ==
    /\ agg_pc = "written"
    /\ mode = "daily"
    /\ Len(taxes_by_state_aggregated) = 2
    /\ StrLess(taxes_by_state_aggregated[2]["Day"], taxes_by_state_aggregated[1]["Day"])
    /\ tax_csv.header = <<<<>>, taxes_by_state_aggregated[2]["Day"],
                          taxes_by_state_aggregated[1]["Day"]>>
    /\ Len(tax_csv.rows) = 3
    /\ tax_csv.rows[1] = [key |-> "CA", cells |-> <<Num(1250), Text(<<>>)>>]
    /\ tax_csv.rows[2] = [key |-> "NY", cells |-> <<Num(750), Num(130)>>]
    /\ tax_csv.rows[3] = [key |-> "TX", cells |-> <<Text(<<>>), Num(400)>>]

\* the period a finalized record falls in, read off its formatted date
PeriodOf(record) ==
    SubSeq(record["Transaction Date"].text, 1, IF mode = "monthly" THEN 7 ELSE 10)

\* the position in data of the first record of the period
FirstOf(period) ==
    CHOOSE i \in DataIdx :
        /\ PeriodOf(data[i]) = period
        /\ \A k \in 1..(i - 1) : PeriodOf(data[k]) # period

\* C16: after the aggregate() of a first run(), aggregated_result has one
\* summary for every period a record falls in and no two for the same period,
\* the summaries stand in the order in which their periods first occur in the
\* record list, and taxes_by_state_aggregated has, position by position, a tax
\* summary of the same period.
C16_FirstSeenOrder ==
    (Summarized /\ agg_runs = 1) =>
        LET label == PeriodLabel(mode)
            n == Len(aggregated_result)
        IN /\ {aggregated_result[k][label] : k \in 1..n} = {PeriodOf(data[i]) : i \in DataIdx}
           /\ \A k, l \in 1..n :
                 k < l => FirstOf(aggregated_result[k][label])
                              < FirstOf(aggregated_result[l][label])
           /\ Len(taxes_by_state_aggregated) = n
           /\ \A k \in 1..n :
                 taxes_by_state_aggregated[k][label] = aggregated_result[k][label]

\* C16 witness: the first record is of February, the second of January, the
\* third of February again: the February summary stands first.
C16_Witness ==
    /\ Summarized /\ agg_runs = 1
    /\ mode = "monthly"
    /\ Len(data) = 3
    /\ Len(aggregated_result) = 2
    /\ aggregated_result[1]["Month"] = <<"2", "0", "2", "5", "-", "0", "2">>
    /\ aggregated_result[2]["Month"] = <<"2", "0", "2", "5", "-", "0", "1">>
    /\ aggregated_result[1]["Transaction Count"] = 2

-----------------------------------------------------------------------------
(* DataPipelineManager: run_all and run_selected *)

\* StepNames as it would be if the order filter ran before the transaction
\* combiner
StepNames_FilterSecond ==
    <<"combine_orders", "filter", "combine_transactions", "transactions", "merge",
      "aggregate">>

\* the steps in the order run_all and run_selected come to them
StepNames ==
    <<"combine_orders", "combine_transactions", "filter", "transactions", "merge",
      "aggregate">>

\* the `if "<name>" in steps` of run_selected; run_all has no test
Selected(k) ==
    \/ run_kind = "run_all"
    \/ \E i \in 1..Len(run_steps) : run_steps[i] = StepNames[k]

\* execution has come to the call of stage k
Start(k) == run_state = "running" /\ run_next = k /\ Selected(k)

\* the disk as the stage finds it
Now == [files |-> files, written |-> written, error |-> "none"]

\* the stage has opened the file at path and found it in that state
Seen(st, path, state) == [st EXCEPT !.files = (path :> state) @@ @]

Failed(st, error) == [st EXCEPT !.error = error]

\* the rows a stage can keep of the rows it read
Kept(found) == IF found = "rows" THEN {"empty", "rows"} ELSE {"empty"}

\* Finish as it would be if run_all caught the exception of a stage, and went on
Finish_Swallow(k, st) ==
    /\ files' = st.files
    /\ written' = st.written
    /\ run_log' = Append(run_log, StepNames[k])
    /\ run_next' = k + 1
    /\ UNCHANGED <<run_state, run_error>>
    /\ UNCHANGED <<run_kind, run_steps, merger_vars, norm_vars, agg_vars, filter_vars>>

\* stage k's run() returns or raises, leaving the disk as in st
Finish(k, st) ==
    /\ files' = st.files
    /\ written' = st.written
    /\ run_log' = Append(run_log, StepNames[k])
    /\ IF st.error = "none"
       THEN run_next' = k + 1 /\ UNCHANGED <<run_state, run_error>>
       ELSE run_state' = "raised" /\ run_error' = st.error /\ UNCHANGED run_next
    /\ UNCHANGED <<run_kind, run_steps, merger_vars, norm_vars, agg_vars, filter_vars>>

\* pipeline.run_all()
call_run_all ==
    /\ run_state = "idle"
    /\ run_state' = "running"
    /\ run_kind' = "run_all"
    /\ UNCHANGED <<files, written, run_steps, run_next, run_log, run_error,
                   merger_vars, norm_vars, agg_vars, filter_vars>>

\* pipeline.run_selected(steps)
call_run_selected ==
    /\ run_state = "idle"
    /\ \E steps \in SeqsUpTo({StepNames[k] : k \in 1..6}, MaxSteps) : run_steps' = steps
    /\ run_state' = "running"
    /\ run_kind' = "run_selected"
    /\ UNCHANGED <<files, written, run_next, run_log, run_error,
                   merger_vars, norm_vars, agg_vars, filter_vars>>

\* CSVCombiner.run(): read_and_validate_files, then save_combined_csv
CombinerRun(st, found, key) ==
    IF ~Readable(found) THEN Failed(st, ReadError(found))
    ELSE SaveAll(st, <<Csv(key, found)>>)

\* self.csv_combiner.run()
csv_combiner_run ==
    /\ Start(1)
    /\ \E found \in Found(files, OrderInputFiles) :
          Finish(1, CombinerRun(Seen(Now, OrderInputFiles, found), found,
                                "combined_orders_csv"))

\* self.transaction_combiner.run()
transaction_combiner_run ==
    /\ Start(2)
    /\ \E found \in Found(files, TransactionInputFiles) :
          Finish(2, CombinerRun(Seen(Now, TransactionInputFiles, found), found,
                                "combined_transactions_csv"))

\* self.filter_orders.run(): filter_orders, then save_outputs
filter_orders_run ==
    /\ Start(3)
    /\ LET path == get_path(config["combined_orders_csv"], "csv") IN
       \E found \in Found(files, path) :
          LET st == Seen(Now, path, found) IN
          IF ~Readable(found) THEN Finish(3, Failed(st, ReadError(found)))
          ELSE \E filtered \in Kept(found) :
                  Finish(3, SaveAll(st, <<Csv("filtered_orders_csv", filtered),
                                          Json("filtered_orders_json", filtered)>>))

\* self.transaction_processor.run(): load_and_split, then save_outputs
transaction_processor_run ==
    /\ Start(4)
    /\ LET path == get_path(config["combined_transactions_csv"], "csv") IN
       \E found \in Found(files, path) :
          LET st == Seen(Now, path, found) IN
          IF ~Readable(found) THEN Finish(4, Failed(st, ReadError(found)))
          ELSE \E pending \in Kept(found), non_pending \in Kept(found) :
                  Finish(4, SaveAll(st, <<Csv("pending_transactions_csv", pending),
                                          Json("pending_transactions_json", pending),
                                          Csv("transactions_csv", non_pending),
                                          Json("transactions_json", non_pending)>>))

\* OrderTransactionMerger.save_outputs()
MergerSaves(processed, unmatched) ==
    <<Json("matched_orders_json", processed), Csv("matched_orders_csv", processed),
      Json("unmatched_orders_json", unmatched), Csv("unmatched_orders_csv", unmatched)>>

\* the orders extract_orders_without_transactions can leave: all of them when
\* there is no transaction, some or none otherwise
Unmatched(orders, txs) == IF txs = "empty" THEN {orders} ELSE Kept(orders)

\* self.merger.run(): load_data, process (which raises when sorted() meets a
\* naive and an aware datetime), extract_orders_without_transactions,
\* save_outputs; every transaction is in processed_transactions
merger_run ==
    /\ Start(5)
    /\ LET orders_path == get_path(config["filtered_orders_json"], "json")
           txs_path == get_path(config["transactions_json"], "json")
       IN \E orders \in Found(files, orders_path) :
             LET opened == Seen(Now, orders_path, orders) IN
             IF ~Readable(orders) THEN Finish(5, Failed(opened, ReadError(orders)))
             ELSE \E txs \in Found(files, txs_path) :
                     LET st == Seen(opened, txs_path, txs) IN
                     IF ~Readable(txs) THEN Finish(5, Failed(st, ReadError(txs)))
                     ELSE \/ txs = "rows" /\ Finish(5, Failed(st, "TypeError"))
                          \/ \E unmatched \in Unmatched(orders, txs) :
                                Finish(5, SaveAll(st, MergerSaves(txs, unmatched)))

\* ChargeAdjustmentAggregatorBase.save_outputs(): one summary and one tax
\* summary per bucket, so the three tables are empty together
AggregatorSaves(rows) ==
    <<Json("intermediate_aggregation_json", rows),
      Csv("intermediate_aggregation_csv", rows),
      ToRoot(Json("aggregated_json", rows)),
      ToRoot(Csv("aggregated_csv", rows)),
      ToRoot(Json("tax_by_state_aggregation_json", rows)),
      ToRoot(Csv("tax_by_state_aggregation_csv", rows))>>

\* self.aggregator.run(): load_data, normalize_shipping_and_taxes, bucket_data,
\* finalize_dates, aggregate (any of which raises on a record it cannot
\* read), save_outputs
aggregator_run ==
    /\ Start(6)
    /\ LET path == get_path(config["matched_orders_json"], "json") IN
       \E found \in Found(files, path) :
          LET st == Seen(Now, path, found) IN
          IF ~Readable(found) THEN Finish(6, Failed(st, ReadError(found)))
          ELSE \/ found = "rows" /\ Finish(6, Failed(st, "ValueError"))
               \/ Finish(6, SaveAll(st, AggregatorSaves(found)))

\* run_selected: the `if` of a step that is not in steps
skip_step ==
    /\ run_state = "running"
    /\ run_next <= 6
    /\ ~Selected(run_next)
    /\ run_next' = run_next + 1
    /\ UNCHANGED <<files, written, run_state, run_kind, run_steps, run_log, run_error,
                   merger_vars, norm_vars, agg_vars, filter_vars>>

\* run_all or run_selected returns
run_returns ==
    /\ run_state = "running"
    /\ run_next = 7
    /\ run_state' = "returned"
    /\ UNCHANGED <<files, written, run_kind, run_steps, run_next, run_log, run_error,
                   merger_vars, norm_vars, agg_vars, filter_vars>>

PipeInit ==
    /\ MergerIdle
    /\ data = <<>>
    /\ norm_calls = 0
    /\ AggIdle
    /\ PipeIdle
    /\ FilterIdle

PipeNext ==
    \/ call_run_all
    \/ call_run_selected
    \/ csv_combiner_run
    \/ transaction_combiner_run
    \/ filter_orders_run
    \/ transaction_processor_run
    \/ merger_run
    \/ aggregator_run
    \/ skip_step
    \/ run_returns

SpecPipe == PipeInit /\ [][PipeNext]_vars

-----------------------------------------------------------------------------
(* Properties of the pipeline *)

ReadErrors == {ReadError(state) : state \in {"absent", "corrupt"}}

\* run_all has ended on a stage that could not read its input
HaltedOnInput ==
    /\ run_kind = "run_all"
    /\ run_state = "raised"
    /\ run_error \in ReadErrors

Returned(name) ==
    \E k \in 1..Len(run_log) :
        run_log[k] = name /\ (k < Len(run_log) \/ run_state # "raised")

BothForms(json_key, csv_key) ==
    {get_path(config[json_key], "json"), get_path(config[csv_key], "csv")}

\* C14 as claimed: once the merge stage has returned, the merged records and
\* the unmatched orders are on disk as JSON and as CSV, and once the aggregate
\* stage has returned so is the period summary, whatever the tables hold.
C14_ArtifactsInBothForms ==
    /\ Returned("merge") =>
           BothForms("matched_orders_json", "matched_orders_csv")
               \cup BothForms("unmatched_orders_json", "unmatched_orders_csv")
                   \subseteq written
    /\ Returned("aggregate") => BothForms("aggregated_json", "aggregated_csv") \subseteq written

\* the step names in the order of the statements of run_all
FixedOrder ==
    <<"combine_orders", "combine_transactions", "filter", "transactions", "merge",
      "aggregate">>

\* the stages the call is to execute, in the fixed order, none twice
Due ==
    SelectSeq(FixedOrder,
              LAMBDA name : \/ run_kind = "run_all"
                            \/ \E i \in 1..Len(run_steps) : run_steps[i] = name)

IsPrefix(s, t) == Len(s) <= Len(t) /\ s = SubSeq(t, 1, Len(s))

\* C20: the stages called so far are the first of the stages due, in the fixed
\* order (all six for run_all, the ones named in steps for run_selected,
\* whatever their order and repetition in steps); a call that has returned has
\* called them all, and one that has raised stopped at the stage that raised.
C20_FixedStageOrder ==
    /\ IsPrefix(run_log, Due)
    /\ run_state = "returned" => run_log = Due
    /\ run_state = "raised" => Len(run_log) >= 1
    /\ run_state = "running" =>
           \A k \in 1..6 :
               (\E i \in 1..Len(run_log) : run_log[i] = FixedOrder[k]) <=>
                   (k < run_next /\ \E i \in 1..Len(Due) : Due[i] = FixedOrder[k])

\* C20 witness: run_selected(["merge", "filter"]) has returned, having called
\* the order filter and then the merger.
C20_Witness ==
    /\ run_state = "returned"
    /\ run_steps = <<"merge", "filter">>
    /\ run_log = <<"filter", "merge">>

-----------------------------------------------------------------------------
(* The stages in sequence: OrderFilter.run(), OrderTransactionMerger.run()  *)
(* and the aggregator's run() up to aggregate(), each on what the stage     *)
(* before it saved as JSON                                                  *)

Email == <<"a">>

Row(name, created, subtotal, taxes, shipping, total, discount) ==
    [Name |-> name, Email |-> Email, Subtotal |-> subtotal, Taxes |-> taxes,
     Shipping |-> shipping, Total |-> total]
        @@ ("Created at" :> created) @@ ("Discount Amount" :> discount)

\* rows of an orders export: an order with every amount, an order whose
\* 'Discount Amount' cell is empty, the further line of an order (amounts
\* empty), an order before the cutoff date, an order whose Total is no number
OrderRowPool ==
    { Row(<<"#", "1">>, IsoText(2025, 1, 15, 10, "-05:00"),
          <<"1", "0", ".", "0", "0">>, <<"1", ".", "5", "0">>, <<"5", ".", "0", "0">>,
          <<"1", "6", ".", "5", "0">>, <<"0", ".", "0", "0">>),
      Row(<<"#", "2">>, IsoText(2025, 2, 1, 9, "-05:00"),
          <<"2", "0", ".", "0", "0">>, <<"0", ".", "0", "0">>, <<" ", "0", ".", "0", "0">>,
          <<"2", "0", ".", "0", "0">>, <<>>),
      Row(<<"#", "1">>, IsoText(2025, 1, 15, 10, "-05:00"), <<>>, <<>>, <<" ">>, <<>>, <<>>),
      Row(<<"#", "2">>, IsoText(2024, 12, 31, 23, "-05:00"),
          <<"2", "0", ".", "0", "0">>, <<"0", ".", "0", "0">>, <<"0", ".", "0", "0">>,
          <<"2", "0", ".", "0", "0">>, <<"0", ".", "0", "0">>),
      Row(<<"#", "7">>, IsoText(2025, 2, 1, 9, "-05:00"),
          <<"8", ".", "0", "0">>, <<"0", ".", "0", "0">>, <<"0", ".", "0", "0">>,
          <<"f", "r", "e", "e">>, <<"0", ".", "0", "0">>) }

\* a transaction as TransactionProcessor.load_and_split emits it: the date
\* parsed and written back by isoformat(), Amount, Fee and Net as numbers
Emitted(order, type, date, amount, fee) ==
    Tx(order, type, date, amount) @@ ("Fee" :> Num(fee)) @@ ("Net" :> Num(amount - fee))

EmittedPool ==
    { Emitted(<<"#", "1">>, charge, IsoText(2025, 2, 1, 9, "+00:00"), 16500, 500),
      Emitted(<<"#", "2">>, charge, IsoText(2025, 2, 5, 10, "+00:00"), 20000, 600),
      Emitted(<<"#", "7">>, charge, IsoText(2025, 2, 5, 10, "+00:00"), 8000, 250),
      Emitted(<<"#", "1">>, refund, IsoText(2025, 2, 5, 10, "+00:00"), 0 - 16500, 0) }

\* OrderFilter.run(): filter_orders(), then save_outputs()
OrderFilter_run ==
    /\ chain_pc = "start"
    /\ filtered_data' = FilterOrders(order_csv)
    /\ chain_pc' = "filtered"
    /\ UNCHANGED <<order_csv, merger_vars, norm_vars, agg_vars, pipe_vars>>

\* OrderTransactionMerger.run(): both load_json calls, process(),
\* extract_orders_without_transactions(), save_outputs(); txs is what
\* transactions.json holds
OrderTransactionMerger_run ==
    /\ chain_pc = "filtered"
    /\ \E txs \in SeqsUpTo(EmittedPool, MaxRows) :
          /\ filtered_orders' = filtered_data
          /\ transactions' = txs
          /\ IF SortRaises(txs)
             THEN /\ merger_raised' = TRUE
                  /\ chain_pc' = "raised"
                  /\ UNCHANGED <<processed_transactions, unmatched_orders, merger_calls,
                                 extracted>>
             ELSE /\ processed_transactions' =
                         processed_transactions \o ProcessAppends(filtered_data, txs)
                  /\ unmatched_orders' = UnmatchedOf(filtered_data, txs)
                  /\ merger_calls' = merger_calls + 1
                  /\ extracted' = TRUE
                  /\ chain_pc' = "merged"
                  /\ UNCHANGED merger_raised
    /\ UNCHANGED <<order_csv, filtered_data, norm_vars, agg_vars, pipe_vars>>

\* the aggregator's run() on matched_orders.json, which holds
\* processed_transactions: load_data, normalize_shipping_and_taxes,
\* bucket_data, finalize_dates, aggregate
Aggregator_run ==
    /\ chain_pc = "merged"
    /\ LET normalized == NormalizeOf(mode, LoadData(processed_transactions))
           bucketed == BucketData(mode, normalized, buckets)
           finalized == FinalizeDates(normalized)
           done == Completed(mode, finalized, bucketed)
       IN /\ input_file' = processed_transactions
          /\ data' = finalized
          /\ buckets' = bucketed
          /\ aggregated_result' = aggregated_result \o
                 [b \in 1..done |->
                     SummaryOf(mode, bucketed[b].key, BucketRecords(finalized, bucketed[b]))]
          /\ taxes_by_state_aggregated' = taxes_by_state_aggregated \o
                 [b \in 1..done |->
                     TaxSummaryOf(mode, bucketed[b].key, BucketRecords(finalized, bucketed[b]))]
          /\ agg_pc' = IF done = Len(bucketed) THEN "aggregated" ELSE "raised"
          /\ chain_pc' = IF done = Len(bucketed) THEN "aggregated" ELSE "raised"
    /\ agg_runs' = agg_runs + 1
    /\ UNCHANGED <<order_csv, filtered_data, merger_vars, norm_calls, mode, tax_csv,
                   pipe_vars>>

ChainInit ==
    /\ MergerIdle
    /\ data = <<>>
    /\ norm_calls = 0
    /\ input_file = <<>>
    /\ mode \in {"monthly", "daily", "standalone"}
    /\ agg_pc = "idle"
    /\ agg_runs = 0
    /\ buckets = <<>>
    /\ aggregated_result = <<>>
    /\ taxes_by_state_aggregated = <<>>
    /\ tax_csv = NoCsv
    /\ PipeIdle
    /\ order_csv \in SeqsUpTo(OrderRowPool, MaxRows)
    /\ filtered_data = <<>>
    /\ chain_pc = "start"

ChainNext == OrderFilter_run \/ OrderTransactionMerger_run \/ Aggregator_run

SpecChain == ChainInit /\ [][ChainNext]_vars

-----------------------------------------------------------------------------
(* Properties of the stages in sequence *)

====
